---- MODULE Spec2Model ----
(***************************************************************************)
(* A model of the LRU/TTL cache engine of src/src/cache/lru.ts: the class  *)
(* LRUCache (entry store, memory accounting, statistics, events, timer)    *)
(* and the class LRUList (the doubly-linked recency list with its node     *)
(* index).  One action per public operation; each action is the whole      *)
(* handler, computed by the operators below, which follow the code line    *)
(* by line.  Time is the value Date.now() returns; Tick advances it.       *)
(***************************************************************************)
EXTENDS Integers, Sequences, FiniteSets, TLC

VARIABLES
    cfg,        \* the constructor's options as stored in the readonly fields
    cache,      \* this.cache: a Map, as the sequence of its entries in insertion order
    keyOrder,   \* this.keyOrder: the LRUList [head, tail, nodeMap, size]
    currentMemoryUsage, \* this.currentMemoryUsage
    stats,      \* this.stats: [hits, misses, evictions, expirations]
    timer,      \* this.cleanupInterval # null
    now,        \* Date.now()
    pending,    \* per key, the asynchronous getOrCompute calls whose supplier has not resolved
    hist        \* history: per key the value last passed to set, and the time of the last set / get hit

vars == <<cfg, cache, keyOrder, currentMemoryUsage, stats, timer, now, pending, hist>>

----------------------------------------------------------------------------
(* Bounds of the model *)

\* Date.now() runs over 0..Horizon in Spec, which has every operation
Horizon == 1
\* Date.now() runs over 0..MaxTime in SpecTTL
MaxTime == 3
\* the statistics counters are explored while their sum is below MaxCount
MaxCount == 2
\* at most MaxPending asynchronous getOrCompute calls are in flight in Spec
MaxPending == 1
\* at most MaxFlights asynchronous getOrCompute calls are in flight in SpecAsync
MaxFlights == 2

\* undefined / null of the source
Undef == -1
\* Infinity of the source (greater than every timestamp of the model)
Infinity == 1000

Keys == {"a", "b", "c"}
\* a key that is no key: the null link of a list node
NullKey == "null"
\* the values stored: JSON.stringify gives "1" and "10"
Values == {1, 10}
\* the ttl arguments a caller passes: none, 0, 1 (milliseconds)
TTLArgs == {Undef, 0, 1}

\* The configurations explored (a missing option is Undef).
\* Spec: both capacity bounds, a default ttl and the cleanup timer
GeneralConfigs ==
    { [maxSize |-> 2, maxMemoryBytes |-> 6, ttl |-> 1, slidingTTL |-> FALSE,
       maxTTL |-> Undef, enableStats |-> FALSE, autoCleanup |-> TRUE] }
\* SpecCap: the capacity bounds, alone and together, with statistics
CapConfigs ==
    { [maxSize |-> 2, maxMemoryBytes |-> Undef, ttl |-> Undef, slidingTTL |-> FALSE,
       maxTTL |-> Undef, enableStats |-> TRUE, autoCleanup |-> FALSE],
      [maxSize |-> Undef, maxMemoryBytes |-> 4, ttl |-> Undef, slidingTTL |-> FALSE,
       maxTTL |-> Undef, enableStats |-> TRUE, autoCleanup |-> FALSE],
      [maxSize |-> 2, maxMemoryBytes |-> 6, ttl |-> Undef, slidingTTL |-> FALSE,
       maxTTL |-> Undef, enableStats |-> TRUE, autoCleanup |-> FALSE] }
\* SpecTTL: sliding TTL with a default ttl of 2
TTLConfigs ==
    { [maxSize |-> 2, maxMemoryBytes |-> Undef, ttl |-> 2, slidingTTL |-> TRUE,
       maxTTL |-> Undef, enableStats |-> FALSE, autoCleanup |-> FALSE] }

\* SpecAsync: a count bound only, no expiry
AsyncConfigs ==
    {[maxSize |-> 2, maxMemoryBytes |-> Undef, ttl |-> Undef, slidingTTL |-> FALSE,
      maxTTL |-> Undef, enableStats |-> FALSE, autoCleanup |-> FALSE]}

\* SpecSweep: autoCleanup on, with a default ttl and without one
SweepConfigs ==
    {[maxSize |-> 2, maxMemoryBytes |-> Undef, ttl |-> 1, slidingTTL |-> FALSE,
      maxTTL |-> 2, enableStats |-> FALSE, autoCleanup |-> TRUE],
     [maxSize |-> 2, maxMemoryBytes |-> Undef, ttl |-> Undef, slidingTTL |-> FALSE,
      maxTTL |-> 2, enableStats |-> FALSE, autoCleanup |-> TRUE]}

\* SpecLife: a count bound, a default ttl, statistics and the cleanup timer
LifeConfigs ==
    {[maxSize |-> 2, maxMemoryBytes |-> Undef, ttl |-> 1, slidingTTL |-> FALSE,
      maxTTL |-> Undef, enableStats |-> TRUE, autoCleanup |-> TRUE]}

\* SpecExp: both expiry rules under sliding TTL with statistics;
\* and an engine without default ttl, maxTTL and statistics
ExpConfigs ==
    {[maxSize |-> 2, maxMemoryBytes |-> Undef, ttl |-> 1, slidingTTL |-> TRUE,
      maxTTL |-> 2, enableStats |-> TRUE, autoCleanup |-> FALSE],
     [maxSize |-> 2, maxMemoryBytes |-> Undef, ttl |-> Undef, slidingTTL |-> FALSE,
      maxTTL |-> Undef, enableStats |-> FALSE, autoCleanup |-> FALSE]}

----------------------------------------------------------------------------
(* JavaScript helpers *)

\* the truthiness of a number | undefined | null
Truthy(n) == n # Undef /\ n # 0

\* x ?? y
Coalesce(x, y) == IF x = Undef THEN y ELSE x

Max(x, y) == IF x >= y THEN x ELSE y

RECURSIVE Digits(_)
\* the length of JSON.stringify(n) for a non-negative integer n
Digits(n) == IF n < 10 THEN 1 ELSE 1 + Digits(n \div 10)

\* LRUCache.estimateSize: UTF-16, 2 bytes per character of the JSON text
estimateSize(value) == Digits(value) * 2

----------------------------------------------------------------------------
(* LRUList *)

EmptyList == [head |-> NullKey, tail |-> NullKey,
              nodeMap |-> [k \in {} |-> [prev |-> NullKey, next |-> NullKey]], size |-> 0]

\* nodeMap.has(key)
LHas(l, key) == key \in DOMAIN l.nodeMap

\* the node index with node k's fields set
SetNext(nm, k, n) == IF k = NullKey THEN nm ELSE [nm EXCEPT ![k].next = n]
SetPrev(nm, k, p) == IF k = NullKey THEN nm ELSE [nm EXCEPT ![k].prev = p]

\* nodeMap.delete(key)
DropNode(nm, key) == [k \in (DOMAIN nm) \ {key} |-> nm[k]]

\* nodeMap.set(key, node)
AddNode(nm, key, node) == [k \in (DOMAIN nm) \cup {key} |-> IF k = key THEN node ELSE nm[k]]

\* a moveToEnd that leaves the list as it is
moveToEnd_noop(l, key) == l

\* LRUList.moveToEnd
moveToEnd(l, key) ==
    IF ~LHas(l, key) \/ key = l.tail THEN l
    ELSE LET node == l.nodeMap[key]
             \* remove from current position
             nm1 == SetNext(l.nodeMap, node.prev, node.next)
             nm2 == SetPrev(nm1, node.next, node.prev)
             head1 == IF key = l.head THEN node.next ELSE l.head
             \* move to tail
             nm3 == [nm2 EXCEPT ![key] = [prev |-> l.tail, next |-> NullKey]]
             nm4 == SetNext(nm3, l.tail, key)
         IN [head |-> IF head1 = NullKey THEN key ELSE head1,
             tail |-> key, nodeMap |-> nm4, size |-> l.size]

\* LRUList.push
push(l, key) ==
    IF LHas(l, key) THEN moveToEnd(l, key)
    ELSE IF l.head = NullKey
         THEN [head |-> key, tail |-> key,
               nodeMap |-> AddNode(l.nodeMap, key, [prev |-> NullKey, next |-> NullKey]),
               size |-> l.size + 1]
         ELSE [head |-> l.head, tail |-> key,
               nodeMap |-> SetNext(AddNode(l.nodeMap, key, [prev |-> l.tail, next |-> NullKey]),
                                   l.tail, key),
               size |-> l.size + 1]

\* a remove without "if (node === this.tail) this.tail = node.prev"
remove_keepTail(l, key) ==
    IF ~LHas(l, key) THEN l
    ELSE LET node == l.nodeMap[key]
             nm1 == SetNext(l.nodeMap, node.prev, node.next)
             nm2 == SetPrev(nm1, node.next, node.prev)
         IN [head |-> IF key = l.head THEN node.next ELSE l.head,
             tail |-> l.tail,
             nodeMap |-> DropNode(nm2, key),
             size |-> l.size - 1]

\* LRUList.remove: the list afterwards (it returns LHas(l, key))
remove(l, key) ==
    IF ~LHas(l, key) THEN l
    ELSE LET node == l.nodeMap[key]
             nm1 == SetNext(l.nodeMap, node.prev, node.next)
             nm2 == SetPrev(nm1, node.next, node.prev)
         IN [head |-> IF key = l.head THEN node.next ELSE l.head,
             tail |-> IF key = l.tail THEN node.prev ELSE l.tail,
             nodeMap |-> DropNode(nm2, key),
             size |-> l.size - 1]

\* a shift that takes the tail
shift_tail(l) ==
    IF l.tail = NullKey THEN [key |-> NullKey, list |-> l]
    ELSE [key |-> l.tail, list |-> remove(l, l.tail)]

\* LRUList.shift: [key |-> the head key or Undef-like NullKey, list |-> the list afterwards]
shift(l) ==
    IF l.head = NullKey THEN [key |-> NullKey, list |-> l]
    ELSE [key |-> l.head, list |-> remove(l, l.head)]

RECURSIVE Walk(_, _, _)
\* the keys from node `current` on, following next, at most `fuel` nodes
Walk(l, current, fuel) ==
    IF current = NullKey \/ fuel = 0 \/ current \notin DOMAIN l.nodeMap THEN <<>>
    ELSE <<current>> \o Walk(l, l.nodeMap[current].next, fuel - 1)

\* LRUList.keys: head to tail
LKeys(l) == Walk(l, l.head, Cardinality(Keys) + 1)

----------------------------------------------------------------------------
(* The entry store: a Map<K, CacheEntry<V>>, entries kept in insertion order *)

MapKeys(m) == {m[i].key : i \in 1..Len(m)}

\* Map.has
MapHas(m, key) == key \in MapKeys(m)

\* Map.get, for a key the map has
MapGet(m, key) == m[CHOOSE i \in 1..Len(m) : m[i].key = key]

\* a Map.set that leaves the entry of an existing key as it is
MapSet_keepOld(m, key, entry) == IF MapHas(m, key) THEN m ELSE Append(m, entry)

\* Map.set: an existing key keeps its place, a new key goes last
MapSet(m, key, entry) ==
    IF MapHas(m, key)
    THEN [m EXCEPT ![CHOOSE i \in 1..Len(m) : m[i].key = key] = entry]
    ELSE Append(m, entry)

\* Map.delete
MapDelete(m, key) == SelectSeq(m, LAMBDA x : x.key # key)

----------------------------------------------------------------------------
(* LRUCache: the private helpers.  An engine value e is the mutable part of
   the object, [cache, keyOrder, mem, stats], with events: the emit(...) calls
   made so far by the operation being computed, in order. *)

Eng == [cache |-> cache, keyOrder |-> keyOrder, mem |-> currentMemoryUsage,
        stats |-> stats, events |-> <<>>, enableStats |-> cfg.enableStats]

Event(type, key, value, isUpdate, reason) ==
    [type |-> type, key |-> key, value |-> value, isUpdate |-> isUpdate, reason |-> reason]

\* an emit that passes no update flag on
emit_noFlag(e, ev) == [e EXCEPT !.events = Append(@, [ev EXCEPT !.isUpdate = FALSE])]

\* LRUCache.emit
emit(e, ev) == [e EXCEPT !.events = Append(@, ev)]

\* an expiry test that counts the instant of expiry as expired
isExpired_ge(entry) == now >= entry.expiry

\* LRUCache.isExpired
isExpired(entry) == now > entry.expiry

\* an engine that never applies the maxTTL rule
pastMaxTTL_never(entry) == FALSE

\* the absolute max TTL test of get, peek, has and pruneExpired
pastMaxTTL(entry) == Truthy(cfg.maxTTL) /\ now - entry.createdAt > cfg.maxTTL

\* a Count that does not look at enableStats
Count_always(e, counter) == [e EXCEPT !.stats[counter] = @ + 1]

\* if (this.enableStats) this.stats[counter]++
Count(e, counter) ==
    IF e.enableStats THEN [e EXCEPT !.stats[counter] = @ + 1] ELSE e

\* evictOldest as it would be without this.cache.delete(oldest)
evictOldest_keepEntry(e, reason) ==
    LET s == shift(e.keyOrder)
        e1 == [e EXCEPT !.keyOrder = s.list]
    IN IF s.key # NullKey /\ MapHas(e.cache, s.key)
       THEN emit(Count(e1, "evictions"),
                 Event("evict", s.key, MapGet(e.cache, s.key).value, FALSE, reason))
       ELSE e1

\* an evictOldest that reports the removal of an expired entry as an expiration
evictOldest_asExpiration(e, reason) ==
    LET s == shift(e.keyOrder)
        e1 == [e EXCEPT !.keyOrder = s.list]
    IN IF s.key # NullKey /\ MapHas(e.cache, s.key)
       THEN LET entry == MapGet(e.cache, s.key)
                e2 == [e1 EXCEPT !.cache = MapDelete(@, s.key),
                                 !.mem = IF Truthy(entry.size) THEN @ - entry.size ELSE @]
            IN IF isExpired(entry) \/ pastMaxTTL(entry)
               THEN emit(Count(e2, "expirations"), Event("expire", s.key, entry.value, FALSE, ""))
               ELSE emit(Count(e2, "evictions"), Event("evict", s.key, entry.value, FALSE, reason))
       ELSE e1

\* evictOldest as it would be without currentMemoryUsage -= entry.size
evictOldest_keepUsage(e, reason) ==
    LET s == shift(e.keyOrder)
        e1 == [e EXCEPT !.keyOrder = s.list]
    IN IF s.key # NullKey /\ MapHas(e.cache, s.key)
       THEN emit(Count([e1 EXCEPT !.cache = MapDelete(@, s.key)], "evictions"),
                 Event("evict", s.key, MapGet(e.cache, s.key).value, FALSE, reason))
       ELSE e1

\* LRUCache.evictOldest
evictOldest(e, reason) ==
    LET s == shift(e.keyOrder)
        e1 == [e EXCEPT !.keyOrder = s.list]
    IN IF s.key # NullKey /\ MapHas(e.cache, s.key)
       THEN LET entry == MapGet(e.cache, s.key)
                e2 == [e1 EXCEPT !.cache = MapDelete(@, s.key),
                                 !.mem = IF Truthy(entry.size) THEN @ - entry.size ELSE @]
            IN emit(Count(e2, "evictions"),
                    Event("evict", s.key, entry.value, FALSE, reason))
       ELSE e1

\* a deleteEntry that accounts every removal as a size eviction
deleteEntry_asEviction(e, key, entry, type) ==
    LET e1 == [e EXCEPT !.keyOrder = remove(@, key),
                        !.cache = MapDelete(@, key),
                        !.mem = IF Truthy(entry.size) THEN @ - entry.size ELSE @]
    IN emit(Count(e1, "evictions"), Event("evict", key, entry.value, FALSE, "size"))

\* a deleteEntry that emits for expirations only
deleteEntry_quiet(e, key, entry, type) ==
    LET e1 == [e EXCEPT !.keyOrder = remove(@, key),
                        !.cache = MapDelete(@, key),
                        !.mem = IF Truthy(entry.size) THEN @ - entry.size ELSE @]
    IN IF type = "expire"
       THEN emit(Count(e1, "expirations"), Event("expire", key, entry.value, FALSE, ""))
       ELSE e1

\* LRUCache.deleteEntry (it returns true)
deleteEntry(e, key, entry, type) ==
    LET e1 == [e EXCEPT !.keyOrder = remove(@, key),
                        !.cache = MapDelete(@, key),
                        !.mem = IF Truthy(entry.size) THEN @ - entry.size ELSE @]
    IN IF type = "expire"
       THEN emit(Count(e1, "expirations"), Event("expire", key, entry.value, FALSE, ""))
       ELSE emit(e1, Event("delete", key, entry.value, FALSE, ""))

RECURSIVE DeleteAll(_, _)
\* the second loop of pruneExpired over keysToDelete
DeleteAll(e, keysToDelete) ==
    IF keysToDelete = <<>> THEN e
    ELSE LET key == Head(keysToDelete)
         IN DeleteAll(IF MapHas(e.cache, key)
                      THEN deleteEntry(e, key, MapGet(e.cache, key), "expire")
                      ELSE e,
                      Tail(keysToDelete))

\* a pruneExpired that applies the expiry rule only
pruneExpired_ttlOnly(e) ==
    LET doomed == SelectSeq(e.cache, LAMBDA x : isExpired(x))
    IN DeleteAll(e, [i \in 1..Len(doomed) |-> doomed[i].key])

\* LRUCache.pruneExpired
pruneExpired(e) ==
    LET doomed == SelectSeq(e.cache, LAMBDA x : isExpired(x) \/ pastMaxTTL(x))
    IN DeleteAll(e, [i \in 1..Len(doomed) |-> doomed[i].key])

----------------------------------------------------------------------------
(* LRUCache: the public operations, as functions of the engine value.
   Those that return something give [e |-> engine afterwards, val |-> result]. *)

\* the eviction checks run on updates too
evictionsApply_always(isUpdate) == TRUE

\* setWithTTL: "if (!isUpdate)", the guard of both eviction checks
evictionsApply(isUpdate) == ~isUpdate

\* the loop condition with >= for >
memoryEvictionDue_ge(e, size) == Len(e.cache) > 0 /\ e.mem + size >= cfg.maxMemoryBytes

\* setWithTTL: the condition of the memory-based eviction loop
memoryEvictionDue(e, size) == Len(e.cache) > 0 /\ e.mem + size > cfg.maxMemoryBytes

\* the size-based eviction condition with > for >=
sizeEvictionDue_gt(e) == Truthy(cfg.maxSize) /\ Len(e.cache) > cfg.maxSize

\* setWithTTL: the condition of the size-based eviction
sizeEvictionDue(e) == Truthy(cfg.maxSize) /\ Len(e.cache) >= cfg.maxSize

\* the memory-based eviction with an if for the while
EvictForMemory_once(e, size) ==
    IF memoryEvictionDue(e, size) THEN evictOldest(e, "memory") ELSE e

RECURSIVE EvictForMemory(_, _)
\* setWithTTL: the memory-based eviction loop
EvictForMemory(e, size) ==
    IF memoryEvictionDue(e, size)
    THEN EvictForMemory(evictOldest(e, "memory"), size)
    ELSE e

\* LRUCache.setWithTTL
setWithTTL(e, key, value, customTTL) ==
    LET isUpdate == MapHas(e.cache, key)
        expiry == IF Truthy(customTTL) THEN now + customTTL ELSE Infinity
        createdAt == now
        size == IF Truthy(cfg.maxMemoryBytes) THEN estimateSize(value) ELSE Undef
        \* remove old entry if updating
        e1 == IF isUpdate /\ Truthy(MapGet(e.cache, key).size)
              THEN [e EXCEPT !.mem = @ - MapGet(e.cache, key).size]
              ELSE e
        \* memory-based eviction
        e2 == IF evictionsApply(isUpdate) /\ Truthy(cfg.maxMemoryBytes) /\ Truthy(size)
              THEN EvictForMemory(e1, size)
              ELSE e1
        \* size-based eviction
        e3 == IF evictionsApply(isUpdate) /\ sizeEvictionDue(e2)
              THEN evictOldest(e2, "size")
              ELSE e2
        \* add/update entry
        e4 == [e3 EXCEPT !.cache = MapSet(@, key, [key |-> key, value |-> value,
                                                   expiry |-> expiry, createdAt |-> createdAt,
                                                   size |-> size]),
                         !.keyOrder = push(@, key),
                         !.mem = IF Truthy(size) THEN @ + size ELSE @]
    IN emit(e4, Event("set", key, value, isUpdate, ""))

\* LRUCache.set
set(e, key, value) == setWithTTL(e, key, value, Coalesce(cfg.ttl, Undef))

\* a get that leaves the expiry of the entry as it is
slidingRefresh_none(e, key, entry) == e

\* get: "Sliding TTL: refresh expiry on access"
slidingRefresh(e, key, entry) ==
    IF cfg.slidingTTL /\ Truthy(cfg.ttl) /\ entry.expiry # Infinity
    THEN [e EXCEPT !.cache = MapSet(@, key, [entry EXCEPT !.expiry = now + cfg.ttl])]
    ELSE e

\* a get that makes room for the key it misses
get_makeRoom(e, key) ==
    IF ~MapHas(e.cache, key)
    THEN [e |-> Count(evictOldest(e, "size"), "misses"), val |-> Undef]
    ELSE LET entry == MapGet(e.cache, key)
         IN IF pastMaxTTL(entry) \/ isExpired(entry)
            THEN [e |-> Count(deleteEntry(e, key, entry, "expire"), "misses"), val |-> Undef]
            ELSE LET e1 == slidingRefresh(e, key, entry)
                     e2 == [e1 EXCEPT !.keyOrder = moveToEnd(@, key)]
                 IN [e |-> Count(e2, "hits"), val |-> entry.value]

\* a get that counts no miss for an expired entry
get_expiredUncounted(e, key) ==
    IF ~MapHas(e.cache, key)
    THEN [e |-> Count(e, "misses"), val |-> Undef]
    ELSE LET entry == MapGet(e.cache, key)
         IN IF pastMaxTTL(entry) \/ isExpired(entry)
            THEN [e |-> deleteEntry(e, key, entry, "expire"), val |-> Undef]
            ELSE LET e1 == slidingRefresh(e, key, entry)
                     e2 == [e1 EXCEPT !.keyOrder = moveToEnd(@, key)]
                 IN [e |-> Count(e2, "hits"), val |-> entry.value]

\* LRUCache.get
get(e, key) ==
    IF ~MapHas(e.cache, key)
    THEN [e |-> Count(e, "misses"), val |-> Undef]
    ELSE LET entry == MapGet(e.cache, key)
         IN IF pastMaxTTL(entry)
            THEN [e |-> Count(deleteEntry(e, key, entry, "expire"), "misses"), val |-> Undef]
            ELSE IF isExpired(entry)
            THEN [e |-> Count(deleteEntry(e, key, entry, "expire"), "misses"), val |-> Undef]
            ELSE LET e1 == slidingRefresh(e, key, entry)
                     e2 == [e1 EXCEPT !.keyOrder = moveToEnd(@, key)]
                 IN [e |-> Count(e2, "hits"), val |-> entry.value]

\* a peek that reads the way get does
peek_viaGet(e, key) == get(e, key)

\* LRUCache.peek (it changes nothing)
peek(e, key) ==
    IF ~MapHas(e.cache, key) THEN [e |-> e, val |-> Undef]
    ELSE LET entry == MapGet(e.cache, key)
         IN IF pastMaxTTL(entry) THEN [e |-> e, val |-> Undef]
            ELSE IF isExpired(entry) THEN [e |-> e, val |-> Undef]
            ELSE [e |-> e, val |-> entry.value]

\* a has that only observes, as peek does
has_viaPeek(e, key) == [e |-> e, val |-> peek(e, key).val # Undef]

\* LRUCache.has
has(e, key) ==
    IF ~MapHas(e.cache, key) THEN [e |-> e, val |-> FALSE]
    ELSE LET entry == MapGet(e.cache, key)
         IN IF pastMaxTTL(entry)
            THEN [e |-> deleteEntry(e, key, entry, "expire"), val |-> FALSE]
            ELSE IF isExpired(entry)
            THEN [e |-> deleteEntry(e, key, entry, "expire"), val |-> FALSE]
            ELSE [e |-> e, val |-> TRUE]

\* a delete that removes the entry as an expiration
delete_asExpire(e, key) ==
    IF ~MapHas(e.cache, key) THEN [e |-> e, val |-> FALSE]
    ELSE [e |-> deleteEntry(e, key, MapGet(e.cache, key), "expire"), val |-> TRUE]

\* LRUCache.delete
delete(e, key) ==
    IF ~MapHas(e.cache, key) THEN [e |-> e, val |-> FALSE]
    ELSE [e |-> deleteEntry(e, key, MapGet(e.cache, key), "delete"), val |-> TRUE]

\* a clear that zeroes the statistics too
clear_zeroStats(e) ==
    emit([e EXCEPT !.cache = <<>>, !.keyOrder = EmptyList, !.mem = 0,
                   !.stats = [hits |-> 0, misses |-> 0, evictions |-> 0, expirations |-> 0]],
         Event("clear", NullKey, Undef, FALSE, ""))

\* LRUCache.clear
clear(e) ==
    emit([e EXCEPT !.cache = <<>>, !.keyOrder = EmptyList, !.mem = 0],
         Event("clear", NullKey, Undef, FALSE, ""))

\* LRUCache.getTTL (null is Undef)
getTTL(e, key) ==
    IF ~MapHas(e.cache, key) THEN [e |-> e, val |-> Undef]
    ELSE LET entry == MapGet(e.cache, key)
         IN IF entry.expiry = Infinity THEN [e |-> e, val |-> Undef]
            ELSE IF isExpired(entry)
            THEN [e |-> deleteEntry(e, key, entry, "expire"), val |-> Undef]
            ELSE [e |-> e, val |-> Max(0, entry.expiry - now)]

\* a touch that ignores its ttl argument
touch_ignoreArg(e, key, ttl) ==
    IF ~MapHas(e.cache, key) THEN [e |-> e, val |-> FALSE]
    ELSE LET entry == MapGet(e.cache, key)
         IN IF isExpired(entry) THEN [e |-> e, val |-> FALSE]
            ELSE LET e1 == IF Truthy(cfg.ttl)
                           THEN [e EXCEPT !.cache =
                                    MapSet(@, key, [entry EXCEPT !.expiry = now + cfg.ttl])]
                           ELSE e
                 IN [e |-> [e1 EXCEPT !.keyOrder = moveToEnd(@, key)], val |-> TRUE]

\* a touch that stores an absent key
touch_upsert(e, key, ttl) ==
    IF ~MapHas(e.cache, key) THEN [e |-> set(e, key, 1), val |-> TRUE]
    ELSE touch_ignoreArg(e, key, ttl)

\* LRUCache.touch
touch(e, key, ttl) ==
    IF ~MapHas(e.cache, key) THEN [e |-> e, val |-> FALSE]
    ELSE LET entry == MapGet(e.cache, key)
         IN IF isExpired(entry) THEN [e |-> e, val |-> FALSE]
            ELSE LET e1 == IF ttl # Undef
                           THEN [e EXCEPT !.cache =
                                    MapSet(@, key, [entry EXCEPT !.expiry = now + ttl])]
                           ELSE IF Truthy(cfg.ttl)
                           THEN [e EXCEPT !.cache =
                                    MapSet(@, key, [entry EXCEPT !.expiry = now + cfg.ttl])]
                           ELSE e
                 IN [e |-> [e1 EXCEPT !.keyOrder = moveToEnd(@, key)], val |-> TRUE]

\* a getOrCompute that invokes the supplier and stores its result on a hit too
getOrCompute_always(e, key, computed) ==
    [e |-> set(get(e, key).e, key, computed), val |-> computed, calls |-> 1]

RECURSIVE GetManyLoop(_, _, _)
\* the loop of getMany over keys; results holds [key, value] in Map order
GetManyLoop(e, keys, results) ==
    IF keys = <<>> THEN [e |-> e, val |-> results]
    ELSE LET r == get(e, Head(keys))
         IN GetManyLoop(r.e, Tail(keys),
                        IF r.val # Undef
                        THEN MapSet(results, Head(keys), [key |-> Head(keys), value |-> r.val])
                        ELSE results)

\* LRUCache.getMany
getMany(e, keys) == GetManyLoop(e, keys, <<>>)

\* LRUCache.getOrCompute with a synchronous computeFn that returns `computed`;
\* calls: the number of invocations of computeFn
getOrCompute(e, key, computed) ==
    LET existing == get(e, key)
    IN IF existing.val # Undef
       THEN [e |-> existing.e, val |-> existing.val, calls |-> 0]
       ELSE [e |-> set(existing.e, key, computed), val |-> computed, calls |-> 1]

\* LRUCache.getOrCompute with a computeFn that returns a Promise, up to the
\* return: on a miss computeFn is invoked and the promise is pending (val Undef)
getOrComputeAsync(e, key) ==
    LET existing == get(e, key)
    IN [e |-> existing.e, val |-> existing.val,
        calls |-> IF existing.val # Undef THEN 0 ELSE 1]

\* a then callback that leaves the value of a stored key
thenCallback_keepFirst(e, key, value) == IF MapHas(e.cache, key) THEN e ELSE set(e, key, value)

\* a then callback that stores nothing in an empty cache
thenCallback_unlessEmpty(e, key, value) == IF e.cache = <<>> THEN e ELSE set(e, key, value)

\* getOrCompute: the callback of computed.then, run with the resolved value
thenCallback(e, key, value) == set(e, key, value)

\* a stopCleanupTimer that leaves the interval set
stopCleanupTimer_noop(t) == t

\* LRUCache.stopCleanupTimer: the interval is set (TRUE) or null (FALSE)
stopCleanupTimer(t) == FALSE

\* LRUCache.dispose, on engine value e with the interval t
dispose(e, t) == [e |-> clear(e), timer |-> stopCleanupTimer(t)]

\* a resetStats that empties the cache too
resetStats_andClear(e) ==
    [clear(e) EXCEPT !.stats = [hits |-> 0, misses |-> 0, evictions |-> 0, expirations |-> 0],
                     !.events = <<>>]

\* LRUCache.resetStats
resetStats(e) == [e EXCEPT !.stats = [hits |-> 0, misses |-> 0, evictions |-> 0, expirations |-> 0]]

\* LRUCache.getStats: the object literal reads the counters, then the size
\* getter runs pruneExpired, then memory usage is read; hitRate is the fraction
\* num / den
getStats(e) ==
    LET total == e.stats.hits + e.stats.misses
        pruned == pruneExpired(e)
    IN [e |-> pruned,
        val |-> [hits |-> e.stats.hits,
                 misses |-> e.stats.misses,
                 hitRate |-> IF total > 0 THEN [num |-> e.stats.hits, den |-> total]
                                          ELSE [num |-> 0, den |-> 1],
                 evictions |-> e.stats.evictions,
                 expirations |-> e.stats.expirations,
                 size |-> Len(pruned.cache),
                 maxSize |-> cfg.maxSize,
                 memoryUsage |-> IF Truthy(cfg.maxMemoryBytes) THEN pruned.mem ELSE Undef,
                 maxMemory |-> cfg.maxMemoryBytes]]

\* LRUCache.toJSON: the fields fromJSON reads
toJSON(e) ==
    [maxSize |-> cfg.maxSize, maxMemoryBytes |-> cfg.maxMemoryBytes, ttl |-> cfg.ttl,
     slidingTTL |-> cfg.slidingTTL, maxTTL |-> cfg.maxTTL,
     entries |-> e.cache, keyOrder |-> LKeys(e.keyOrder)]

\* the options LRUCache.fromJSON passes to the constructor
fromJSONOptions(json) ==
    [maxSize |-> json.maxSize, maxMemoryBytes |-> json.maxMemoryBytes,
     ttl |-> Coalesce(json.ttl, Undef), slidingTTL |-> json.slidingTTL,
     maxTTL |-> Coalesce(json.maxTTL, Undef),
     enableStats |-> FALSE, autoCleanup |-> FALSE]

RECURSIVE Restore(_, _)
\* the loop of LRUCache.fromJSON over json.entries
Restore(e, entries) ==
    IF entries = <<>> THEN e
    ELSE LET x == Head(entries)
         IN Restore(IF x.expiry > now
                    THEN [e EXCEPT !.cache = MapSet(@, x.key, x),
                                   !.keyOrder = push(@, x.key),
                                   !.mem = IF Truthy(x.size) THEN @ + x.size ELSE @]
                    ELSE e,
                    Tail(entries))

NewEngine == [cache |-> <<>>, keyOrder |-> EmptyList, mem |-> 0,
              stats |-> [hits |-> 0, misses |-> 0, evictions |-> 0, expirations |-> 0],
              events |-> <<>>, enableStats |-> FALSE]

\* a constructor that accepts every options object
constructor_unchecked(options) ==
    [ok |-> TRUE, cfg |-> options, e |-> [NewEngine EXCEPT !.enableStats = options.enableStats],
     timer |-> (options.autoCleanup /\ options.ttl # Undef)]

\* new LRUCache(options): it throws, or it returns the engine in its first
\* state (the options are written with their boolean fields given)
constructor(options) ==
    IF ~Truthy(options.maxSize) /\ ~Truthy(options.maxMemoryBytes)
    THEN [ok |-> FALSE, error |-> "Either maxSize or maxMemoryBytes must be specified"]
    ELSE [ok |-> TRUE, cfg |-> options,
          e |-> [NewEngine EXCEPT !.enableStats = options.enableStats],
          timer |-> (options.autoCleanup /\ options.ttl # Undef)]

\* LRUCache.fromJSON: the engine it returns
fromJSON(json) == Restore(NewEngine, json.entries)

RECURSIVE DeleteKeys(_, _, _)
\* deleteByPattern: the loop over keysToDelete, counting the deletions
DeleteKeys(e, keysToDelete, deleted) ==
    IF keysToDelete = <<>> THEN [e |-> e, val |-> deleted]
    ELSE LET r == delete(e, Head(keysToDelete))
         IN DeleteKeys(r.e, Tail(keysToDelete), IF r.val THEN deleted + 1 ELSE deleted)

\* new RegExp(`^${prefix}:`).test(key), for a prefix without regular-expression
\* metacharacters
patternTest(prefix, key) ==
    /\ Len(key) >= Len(prefix) + 1
    /\ SubSeq(key, 1, Len(prefix) + 1) = prefix \o ":"

\* LRUCache.deleteByPattern, for the pattern NamespacedCache.clear builds
deleteByPattern(e, prefix) ==
    LET matching == SelectSeq(e.cache, LAMBDA x : patternTest(prefix, x.key))
    IN DeleteKeys(e, [i \in 1..Len(matching) |-> matching[i].key], 0)

----------------------------------------------------------------------------
(* NamespacedCache: a prefix and the parent cache it delegates to *)

\* NamespacedCache.prefixKey
prefixKey(prefix, key) == prefix \o ":" \o key

\* NamespacedCache.set, get, delete, clear
nsSet(e, prefix, key, value) == set(e, prefixKey(prefix, key), value)
nsGet(e, prefix, key) == get(e, prefixKey(prefix, key))
nsDelete(e, prefix, key) == delete(e, prefixKey(prefix, key))
nsClear(e, prefix) == deleteByPattern(e, prefix).e

----------------------------------------------------------------------------------------------------------------------------------------
(* The state machine *)

NoPending == [k \in Keys |-> 0]

RECURSIVE SumOver(_, _)
SumOver(f, S) == IF S = {} THEN 0
                 ELSE LET k == CHOOSE x \in S : TRUE IN f[k] + SumOver(f, S \ {k})

\* the asynchronous getOrCompute calls in flight
InFlight == SumOver(pending, Keys)

NoHist == [written |-> [k \in Keys |-> Undef], access |-> [k \in Keys |-> Undef],
           order |-> <<>>]

\* the constructor: startCleanupTimer() runs iff autoCleanup && ttl !== null
InitWith(configs) ==
    /\ cfg \in configs
    /\ cache = <<>>
    /\ keyOrder = EmptyList
    /\ currentMemoryUsage = 0
    /\ stats = [hits |-> 0, misses |-> 0, evictions |-> 0, expirations |-> 0]
    /\ timer = (cfg.autoCleanup /\ cfg.ttl # Undef)
    /\ now = 0
    /\ pending = NoPending
    /\ hist = NoHist

\* the statistics counters are explored while their sum is below MaxCount
\* (resetStats makes room again)
StatsRoom == stats.hits + stats.misses + stats.evictions + stats.expirations < MaxCount

\* the engine value e becomes the state
Commit(e) ==
    /\ cache' = e.cache
    /\ keyOrder' = e.keyOrder
    /\ currentMemoryUsage' = e.mem
    /\ stats' = e.stats

\* seq without x
Without(seq, x) == SelectSeq(seq, LAMBDA y : y # x)

\* History after an operation that left the store newCache.
\*   written[k]: the value last passed to set/setWithTTL for k; wk was written
\*               with wv by this operation (NullKey: no write).
\*   order:      the stored keys by their last successful get, set or touch,
\*               oldest first; ak is the key this operation accessed (NullKey: none).
\*   access[k]:  under sliding TTL, the time of the last plain set or get hit of
\*               an entry that only set, get, peek and has have handled; `plain`
\*               says whether this access of ak keeps it so.
\* A key that is not stored has no history.
HistNext(newCache, wk, wv, ak, plain) ==
    hist' = [written |-> [k \in Keys |-> IF ~MapHas(newCache, k) THEN Undef
                                         ELSE IF k = wk THEN wv ELSE hist.written[k]],
             access |-> [k \in Keys |-> IF ~MapHas(newCache, k) \/ ~cfg.slidingTTL THEN Undef
                                        ELSE IF k = ak THEN (IF plain THEN now ELSE Undef)
                                        ELSE hist.access[k]],
             order |-> SelectSeq(IF ak = NullKey THEN hist.order
                                 ELSE Append(Without(hist.order, ak), ak),
                                 LAMBDA y : MapHas(newCache, y))]

\* an operation that reads or removes, and accesses no key
Passive(newCache) == HistNext(newCache, NullKey, Undef, NullKey, FALSE)

\* a get of k: on a hit k is accessed
Read(newCache, k, hit) ==
    IF hit THEN HistNext(newCache, NullKey, Undef, k, hist.access[k] # Undef)
    ELSE Passive(newCache)

Set(k, v) ==
    /\ StatsRoom
    /\ LET e == set(Eng, k, v)
       IN Commit(e) /\ HistNext(e.cache, k, v, k, TRUE)
    /\ UNCHANGED <<cfg, timer, now, pending>>

SetWithTTL(k, v, t) ==
    /\ StatsRoom
    /\ LET e == setWithTTL(Eng, k, v, t)
       IN Commit(e) /\ HistNext(e.cache, k, v, k, FALSE)
    /\ UNCHANGED <<cfg, timer, now, pending>>

Get(k) ==
    /\ StatsRoom
    /\ LET r == get(Eng, k)
       IN Commit(r.e) /\ Read(r.e.cache, k, r.val # Undef)
    /\ UNCHANGED <<cfg, timer, now, pending>>

\* peek returns peek(Eng, k) and assigns nothing
Peek(k) ==
    /\ LET r == peek(Eng, k)
       IN Commit(r.e) /\ Passive(r.e.cache)
    /\ UNCHANGED <<cfg, timer, now, pending>>

Has(k) ==
    /\ StatsRoom
    /\ LET r == has(Eng, k)
       IN Commit(r.e) /\ Passive(r.e.cache)
    /\ UNCHANGED <<cfg, timer, now, pending>>

Delete(k) ==
    /\ LET r == delete(Eng, k)
       IN Commit(r.e) /\ Passive(r.e.cache)
    /\ UNCHANGED <<cfg, timer, now, pending>>

Clear ==
    /\ LET e == clear(Eng)
       IN Commit(e) /\ Passive(e.cache)
    /\ UNCHANGED <<cfg, timer, now, pending>>

GetTTL(k) ==
    /\ StatsRoom
    /\ LET r == getTTL(Eng, k)
       IN Commit(r.e) /\ Passive(r.e.cache)
    /\ UNCHANGED <<cfg, timer, now, pending>>

Touch(k, t) ==
    /\ LET r == touch(Eng, k, t)
       IN Commit(r.e) /\ HistNext(r.e.cache, NullKey, Undef, IF r.val THEN k ELSE NullKey, FALSE)
    /\ UNCHANGED <<cfg, timer, now, pending>>

\* getOrCompute with a synchronous supplier that returns v
GetOrCompute(k, v) ==
    /\ StatsRoom
    /\ LET r == getOrCompute(Eng, k, v)
           hit == get(Eng, k).val # Undef
       IN /\ Commit(r.e)
          /\ IF hit THEN Read(r.e.cache, k, TRUE)
             ELSE HistNext(r.e.cache, k, v, k, TRUE)
    /\ UNCHANGED <<cfg, timer, now, pending>>

\* getOrCompute with an asynchronous supplier, up to the return of the promise:
\* on a miss the supplier is invoked and its promise is pending
GetOrComputeAsync(k, limit) ==
    /\ StatsRoom
    /\ InFlight < limit
    /\ LET r == getOrComputeAsync(Eng, k)
       IN /\ Commit(r.e)
          /\ pending' = [pending EXCEPT ![k] = @ + r.calls]
          /\ Read(r.e.cache, k, r.val # Undef)
    /\ UNCHANGED <<cfg, timer, now>>

\* the supplier's promise resolves with v: the .then callback of getOrCompute
Resolve(k, v) ==
    /\ StatsRoom
    /\ pending[k] > 0
    /\ pending' = [pending EXCEPT ![k] = @ - 1]
    /\ LET e == thenCallback(Eng, k, v)
       IN Commit(e) /\ HistNext(e.cache, k, v, k, TRUE)
    /\ UNCHANGED <<cfg, timer, now>>

\* the size getter (also keys(), values(), entries(), forEach, getStats):
\* pruneExpired, then this.cache.size
Size ==
    /\ StatsRoom
    /\ LET e == pruneExpired(Eng)
       IN Commit(e) /\ Passive(e.cache)
    /\ UNCHANGED <<cfg, timer, now, pending>>

GetStats ==
    /\ StatsRoom
    /\ LET r == getStats(Eng)
       IN Commit(r.e) /\ Passive(r.e.cache)
    /\ UNCHANGED <<cfg, timer, now, pending>>

\* the setInterval callback of startCleanupTimer
TimerSweep ==
    /\ timer
    /\ StatsRoom
    /\ LET e == pruneExpired(Eng)
       IN Commit(e) /\ Passive(e.cache)
    /\ UNCHANGED <<cfg, timer, now, pending>>

\* dispose: stopCleanupTimer, clear, eventListeners.clear
Dispose ==
    /\ LET d == dispose(Eng, timer)
       IN /\ timer' = d.timer
          /\ Commit(d.e) /\ Passive(d.e.cache)
    /\ UNCHANGED <<cfg, now, pending>>

ResetStats ==
    /\ Commit(resetStats(Eng))
    /\ UNCHANGED <<cfg, timer, now, pending, hist>>

\* time passes, up to `limit`
Tick(limit) ==
    /\ now < limit
    /\ now' = now + 1
    /\ UNCHANGED <<cfg, cache, keyOrder, currentMemoryUsage, stats, timer, pending, hist>>

----------------------------------------------------------------------------
(* Spec: every operation, time and the timer, one asynchronous key *)

Init == InitWith(GeneralConfigs)

Next ==
    \/ \E k \in Keys, v \in Values : Set(k, v)
    \/ \E k \in Keys, v \in Values, t \in TTLArgs : SetWithTTL(k, v, t)
    \/ \E k \in Keys : Get(k)
    \/ \E k \in Keys : Peek(k)
    \/ \E k \in Keys : Has(k)
    \/ \E k \in Keys : Delete(k)
    \/ Clear
    \/ \E k \in Keys : GetTTL(k)
    \/ \E k \in Keys, t \in TTLArgs : Touch(k, t)
    \/ \E k \in Keys, v \in Values : GetOrCompute(k, v)
    \/ GetOrComputeAsync("a", MaxPending)
    \/ \E v \in Values : Resolve("a", v)
    \/ Size
    \/ TimerSweep
    \/ Dispose
    \/ ResetStats
    \/ Tick(Horizon)

Spec == Init /\ [][Next]_vars

(* SpecCap: the capacity bounds with statistics; no time passes *)

InitCap == InitWith(CapConfigs)

NextCap ==
    \/ \E k \in Keys, v \in Values : Set(k, v)
    \/ \E k \in Keys : Get(k)
    \/ \E k \in Keys : Peek(k)
    \/ \E k \in Keys : Touch(k, Undef)
    \/ \E k \in Keys : Delete(k)
    \/ \E k \in Keys, v \in Values : GetOrCompute(k, v)
    \/ Clear
    \/ ResetStats

SpecCap == InitCap /\ [][NextCap]_vars

(* SpecTTL: sliding TTL over a longer time, two keys, one value *)

InitTTL == InitWith(TTLConfigs)

NextTTL ==
    \/ \E k \in {"a", "b"} : Set(k, 1)
    \/ \E k \in {"a", "b"}, t \in TTLArgs : SetWithTTL(k, 1, t)
    \/ \E k \in {"a", "b"} : Get(k)
    \/ \E k \in {"a", "b"} : Peek(k)
    \/ \E k \in {"a", "b"} : Has(k)
    \/ \E k \in {"a", "b"}, t \in TTLArgs : Touch(k, t)
    \/ \E k \in {"a", "b"} : Delete(k)
    \/ Size
    \/ Tick(MaxTime)

SpecTTL == InitTTL /\ [][NextTTL]_vars

(* SpecExp: the two expiry rules and the reads, two keys, time up to MaxTime *)

InitExp == InitWith(ExpConfigs)

NextExp ==
    \/ \E v \in Values : Set("a", v)
    \/ Set("b", 1)
    \/ \E t \in TTLArgs : SetWithTTL("a", 1, t)
    \/ \E k \in {"a", "b"} : Get(k)
    \/ \E k \in {"a", "b"} : Peek(k)
    \/ \E k \in {"a", "b"} : Has(k)
    \/ \E k \in {"a", "b"}, t \in TTLArgs : Touch(k, t)
    \/ Size
    \/ ResetStats
    \/ Tick(MaxTime)

SpecExp == InitExp /\ [][NextExp]_vars

(* SpecAsync: asynchronous getOrCompute calls on "a", up to MaxFlights in
   flight, among writes of the other keys; "a" is written by the callbacks only *)

InitAsync == InitWith(AsyncConfigs)

NextAsync ==
    \/ GetOrComputeAsync("a", MaxFlights)
    \/ \E v \in Values : Resolve("a", v)
    \/ \E k \in {"b", "c"}, v \in Values : GetOrCompute(k, v)
    \/ \E k \in {"b", "c"} : Set(k, 1)
    \/ \E k \in {"b", "c"} : Delete(k)
    \/ \E k \in Keys : Get(k)
    \/ \E k \in Keys : Peek(k)

SpecAsync == InitAsync /\ [][NextAsync]_vars

(* SpecSweep: the cleanup timer of an engine that is never disposed. While
   the interval is set its callback runs again and again: weak fairness of
   TimerSweep. Nothing else is required to happen. *)

InitSweep == InitWith(SweepConfigs)

NextSweep ==
    \/ \E k \in {"a", "b"} : Set(k, 1)
    \/ \E k \in {"a", "b"}, t \in TTLArgs : SetWithTTL(k, 1, t)
    \/ \E k \in {"a", "b"} : Get(k)
    \/ \E k \in {"a", "b"}, t \in TTLArgs : Touch(k, t)
    \/ TimerSweep
    \/ Tick(MaxTime)

SpecSweep == InitSweep /\ [][NextSweep]_vars /\ WF_vars(TimerSweep)

(* SpecLife: every synchronous operation with statistics, the timer and
   dispose; one value, time up to Horizon; "c" is only set, to fill the store *)

InitLife == InitWith(LifeConfigs)

NextLife ==
    \/ \E k \in Keys : Set(k, 1)
    \/ \E t \in TTLArgs : SetWithTTL("a", 1, t)
    \/ \E k \in {"a", "b"} : Get(k)
    \/ \E k \in {"a", "b"} : Peek(k)
    \/ \E k \in {"a", "b"} : Has(k)
    \/ \E k \in {"a", "b"} : Delete(k)
    \/ Clear
    \/ \E k \in {"a", "b"} : GetTTL(k)
    \/ \E k \in {"a", "b"}, t \in TTLArgs : Touch(k, t)
    \/ \E k \in {"a", "b"} : GetOrCompute(k, 1)
    \/ Size
    \/ GetStats
    \/ TimerSweep
    \/ Dispose
    \/ ResetStats
    \/ Tick(Horizon)

SpecLife == InitLife /\ [][NextLife]_vars

(* SpecCtor: an engine in use is replaced by a newly constructed one; a
   construction that throws leaves the engine in use *)

\* the first engine of SpecCtor
CtorConfigs ==
    { [maxSize |-> 2, maxMemoryBytes |-> Undef, ttl |-> Undef, slidingTTL |-> FALSE,
       maxTTL |-> Undef, enableStats |-> TRUE, autoCleanup |-> FALSE] }

\* the options given to the constructor: no bound, maxSize 0, each bound alone,
\* both, and a default ttl with autoCleanup
CtorOptions ==
    { [maxSize |-> ms, maxMemoryBytes |-> mb, ttl |-> Undef, slidingTTL |-> FALSE,
       maxTTL |-> Undef, enableStats |-> TRUE, autoCleanup |-> FALSE]
        : ms \in {Undef, 0, 1}, mb \in {Undef, 0, 4} }
    \cup
    { [maxSize |-> ms, maxMemoryBytes |-> Undef, ttl |-> 1, slidingTTL |-> FALSE,
       maxTTL |-> Undef, enableStats |-> FALSE, autoCleanup |-> TRUE]
        : ms \in {Undef, 1} }

\* engine = new LRUCache(options), the engine in use being kept when it throws
Construct(options) ==
    LET c == constructor(options)
    IN IF c.ok
       THEN /\ cfg' = c.cfg
            /\ cache' = c.e.cache
            /\ keyOrder' = c.e.keyOrder
            /\ currentMemoryUsage' = c.e.mem
            /\ stats' = c.e.stats
            /\ timer' = c.timer
            /\ pending' = NoPending
            /\ hist' = NoHist
            /\ UNCHANGED now
       ELSE UNCHANGED vars

InitCtor == InitWith(CtorConfigs)

NextCtor ==
    \/ \E options \in CtorOptions : Construct(options)
    \/ \E k \in {"a", "b"} : Set(k, 1)
    \/ \E k \in {"a", "b"} : Get(k)
    \/ TimerSweep
    \/ Tick(Horizon)

SpecCtor == InitCtor /\ [][NextCtor]_vars

(* SpecMem: a memory bound alone, values of two sizes, a default ttl, and
   touch(k, 0), after which an entry expires with the next tick *)

\* a bound of 6 holds three small values; a bound of 3 is below the size of the
\* large value
MemConfigs ==
    { [maxSize |-> Undef, maxMemoryBytes |-> mb, ttl |-> 1, slidingTTL |-> FALSE,
       maxTTL |-> Undef, enableStats |-> FALSE, autoCleanup |-> FALSE] : mb \in {3, 6} }

InitMem == InitWith(MemConfigs)

NextMem ==
    \/ \E k \in Keys, v \in Values : Set(k, v)
    \/ \E k \in Keys : Touch(k, 0)
    \/ \E k \in Keys : Get(k)
    \/ \E k \in Keys : Delete(k)
    \/ Clear
    \/ Size
    \/ Tick(Horizon)

SpecMem == InitMem /\ [][NextMem]_vars

(* SpecNs: three NamespacedCache views of one parent cache; the prefix of
   one begins with the prefix of another.  The history variable is not used. *)

NsConfigs ==
    { [maxSize |-> 3, maxMemoryBytes |-> Undef, ttl |-> Undef, slidingTTL |-> FALSE,
       maxTTL |-> Undef, enableStats |-> FALSE, autoCleanup |-> FALSE] }

\* the prefixes of parent.namespace(prefix), and the keys used through them
NsPrefixes == {"a", "a:b", "c"}
NsKeys == {"x", "b:x"}

NsSet(prefix, k, v) ==
    /\ Commit(nsSet(Eng, prefix, k, v))
    /\ UNCHANGED <<cfg, timer, now, pending, hist>>

NsGet(prefix, k) ==
    /\ Commit(nsGet(Eng, prefix, k).e)
    /\ UNCHANGED <<cfg, timer, now, pending, hist>>

NsDelete(prefix, k) ==
    /\ Commit(nsDelete(Eng, prefix, k).e)
    /\ UNCHANGED <<cfg, timer, now, pending, hist>>

NsClear(prefix) ==
    /\ Commit(nsClear(Eng, prefix))
    /\ UNCHANGED <<cfg, timer, now, pending, hist>>

InitNs == InitWith(NsConfigs)

NextNs ==
    \/ \E prefix \in NsPrefixes, k \in NsKeys, v \in Values : NsSet(prefix, k, v)
    \/ \E prefix \in NsPrefixes, k \in NsKeys : NsGet(prefix, k)
    \/ \E prefix \in NsPrefixes, k \in NsKeys : NsDelete(prefix, k)
    \/ \E prefix \in NsPrefixes : NsClear(prefix)

SpecNs == InitNs /\ [][NextNs]_vars

(* SpecPending: asynchronous getOrCompute calls on "a" that are started
   before dispose only (the interval is set from construction to dispose), and
   complete at any time; clear, dispose and writes of the other keys *)

PendingConfigs ==
    { [maxSize |-> 2, maxMemoryBytes |-> Undef, ttl |-> 1, slidingTTL |-> FALSE,
       maxTTL |-> Undef, enableStats |-> FALSE, autoCleanup |-> TRUE] }

InitPending == InitWith(PendingConfigs)

NextPending ==
    \/ timer /\ GetOrComputeAsync("a", MaxFlights)
    \/ \E v \in Values : Resolve("a", v)
    \/ \E k \in {"b", "c"} : Set(k, 1)
    \/ \E k \in Keys : Get(k)
    \/ \E k \in {"b", "c"} : Delete(k)
    \/ Clear
    \/ Dispose

SpecPending == InitPending /\ [][NextPending]_vars

----------------------------------------------------------------------------
(* Properties *)

\* the set of the elements of a sequence
Range(seq) == {seq[i] : i \in 1..Len(seq)}

\* the stored entry of k is expired under the expiry rule / under either rule
Expired(k) == MapHas(cache, k) /\ isExpired(MapGet(cache, k))
Dead(k) == MapHas(cache, k) /\ (isExpired(MapGet(cache, k)) \/ pastMaxTTL(MapGet(cache, k)))
Live(k) == MapHas(cache, k) /\ ~Dead(k)

\* the recency list and the entry store of engine value e hold the same keys
InSync(e) ==
    /\ DOMAIN e.keyOrder.nodeMap = MapKeys(e.cache)
    /\ Range(LKeys(e.keyOrder)) = MapKeys(e.cache)

\* C1: after every operation the keys of the recency list are the keys of the
\* entry store; the same holds for the engine fromJSON builds from toJSON.
C1_CrossStructure ==
    /\ InSync(Eng)
    /\ InSync(fromJSON(toJSON(Eng)))

\* a full store holding an expired entry while an asynchronous computation is pending
C1_Witness ==
    /\ Len(cache) = cfg.maxSize
    /\ \E k \in Keys : Expired(k)
    /\ pending["a"] > 0
    /\ ~timer

\* C2: with maxSize set, the store never holds more than maxSize entries.
C2_CountBound == Truthy(cfg.maxSize) => Len(cache) <= cfg.maxSize

\* the store is full, time has passed, a computation is pending for a key
\* that is not stored
C2_Witness ==
    /\ Truthy(cfg.maxSize) /\ Len(cache) = cfg.maxSize
    /\ now = Horizon
    /\ pending["a"] > 0 /\ ~MapHas(cache, "a")

\* the evict events among the events of engine value e
Evicts(e) == SelectSeq(e.events, LAMBDA x : x.type = "evict")

\* C3 as claimed: with maxMemoryBytes set (every value of the model fits it),
\* currentMemoryUsage never exceeds maxMemoryBytes.
C3_Original == Truthy(cfg.maxMemoryBytes) => currentMemoryUsage <= cfg.maxMemoryBytes

\* the entry of k is kept by the step and its size grows
Grew(k) ==
    /\ MapHas(cache, k) /\ MapHas(cache', k)
    /\ MapGet(cache', k).size > MapGet(cache, k).size

C3_Step ==
    Truthy(cfg.maxMemoryBytes) =>
        /\ (MapKeys(cache') \ MapKeys(cache) # {}
                => currentMemoryUsage' <= cfg.maxMemoryBytes)
        /\ (currentMemoryUsage' > cfg.maxMemoryBytes /\ currentMemoryUsage' > currentMemoryUsage
                => MapKeys(cache') = MapKeys(cache) /\ \E k \in Keys : Grew(k))

\* C3 amended: with maxMemoryBytes set, usage is within the bound after every
\* insertion of a new key, and a step raises usage to a value above the bound
\* only if it is an update: it keeps the stored keys and grows an entry.
C3_MemoryBound == [][C3_Step]_vars

\* memory-only bound, exceeded (by updates that grew entries)
C3_Witness ==
    /\ cfg.maxSize = Undef /\ Truthy(cfg.maxMemoryBytes)
    /\ currentMemoryUsage > cfg.maxMemoryBytes
    /\ Len(cache) = 2

\* C4: the store holds, for each key, the value last passed to set/setWithTTL
\* for it; get(k) returns that value when k is stored and unexpired, and never
\* returns anything else.
C4_LastWritten ==
    \A k \in Keys :
        LET r == get(Eng, k)
        IN /\ MapHas(cache, k) => MapGet(cache, k).value = hist.written[k]
           /\ r.val # Undef => r.val = hist.written[k]
           /\ Live(k) => r.val = hist.written[k] /\ r.val \in Values

\* the entry inserted first was written again later, with another value than
\* its neighbour's
C4_Witness ==
    /\ Len(cache) = 2
    /\ cache[1].createdAt > cache[2].createdAt
    /\ cache[1].value = 10 /\ cache[2].value = 1
    /\ Live(cache[1].key)

\* the last element of a non-empty sequence
Last(seq) == seq[Len(seq)]

\* C5: a successful get, a set/setWithTTL and a successful touch leave the key
\* at the tail; the recency list, head to tail, is the stored keys by their last
\* such access, oldest first; and the evictions of an insertion take the keys
\* from the head, in that order.
C5_Recency ==
    /\ LKeys(keyOrder) = hist.order
    /\ \A k \in Keys :
        /\ get(Eng, k).val # Undef =>
              /\ get(Eng, k).e.keyOrder.tail = k
              /\ Last(LKeys(get(Eng, k).e.keyOrder)) = k
        /\ \A t \in TTLArgs :
              touch(Eng, k, t).val =>
                  /\ touch(Eng, k, t).e.keyOrder.tail = k
                  /\ Last(LKeys(touch(Eng, k, t).e.keyOrder)) = k
        /\ \A v \in Values, t \in TTLArgs :
              LET e == setWithTTL(Eng, k, v, t)
              IN /\ e.keyOrder.tail = k
                 /\ Last(LKeys(e.keyOrder)) = k
                 /\ \A i \in 1..Len(Evicts(e)) : Evicts(e)[i].key = LKeys(keyOrder)[i]

\* "a" was inserted before "b" and accessed after it
C5_Witness ==
    /\ Len(cache) = 2 /\ cache[1].key = "a" /\ cache[2].key = "b"
    /\ LKeys(keyOrder) = <<"b", "a">>
    /\ cache[1].createdAt = cache[2].createdAt

\* what C6 says of setWithTTL(k, v, t) for a new key k on a store at maxSize;
\* counted: by how much the evictions counter grows
C6_Post(k, v, t, counted) ==
    LET e == setWithTTL(Eng, k, v, t)
        lru == keyOrder.head
    IN /\ Len(Evicts(e)) = 1
       /\ Evicts(e)[1] = Event("evict", lru, MapGet(cache, lru).value, FALSE, "size")
       /\ lru = LKeys(keyOrder)[1]
       /\ MapKeys(e.cache) = (MapKeys(cache) \ {lru}) \cup {k}
       /\ e.stats.evictions = stats.evictions + counted

\* C6 as claimed: a new key set on a store at maxSize evicts exactly one entry,
\* the head of the recency list, counts one eviction and emits one evict event
\* with that key, its value and the reason "size" (the spec's "count").
C6_Original ==
    Truthy(cfg.maxSize) /\ Len(cache) = cfg.maxSize =>
        \A k \in Keys \ MapKeys(cache), v \in Values, t \in TTLArgs : C6_Post(k, v, t, 1)

\* the memory-based loop of setWithTTL evicts nothing for a new value v
Fits(v) == ~(Truthy(cfg.maxMemoryBytes) /\ currentMemoryUsage + estimateSize(v) > cfg.maxMemoryBytes)

\* C6 amended: the same, when the new entry fits the memory bound without
\* eviction (or there is no memory bound); the counter grows when enableStats is on.
C6_CountEviction ==
    Truthy(cfg.maxSize) /\ Len(cache) = cfg.maxSize =>
        \A k \in Keys \ MapKeys(cache), v \in Values, t \in TTLArgs :
            Fits(v) => C6_Post(k, v, t, IF cfg.enableStats THEN 1 ELSE 0)

\* a, b, c were set in this order on a count-bounded store: a was evicted
C6_Witness ==
    /\ cfg.maxSize = 2 /\ cfg.maxMemoryBytes = Undef
    /\ LKeys(keyOrder) = <<"b", "c">>
    /\ stats.evictions = 1

\* C7: a set/setWithTTL of a stored key evicts nothing: the stored keys, the
\* entry count and the keys of the recency list stay, no evict event is
\* emitted and the evictions counter stays.
C7_UpdateNeverEvicts ==
    \A k \in MapKeys(cache), v \in Values, t \in TTLArgs :
        LET e == setWithTTL(Eng, k, v, t)
        IN /\ MapKeys(e.cache) = MapKeys(cache)
           /\ Len(e.cache) = Len(cache)
           /\ DOMAIN e.keyOrder.nodeMap = DOMAIN keyOrder.nodeMap
           /\ e.keyOrder.size = keyOrder.size
           /\ e.events = <<Event("set", k, v, TRUE, "")>>
           /\ e.stats.evictions = stats.evictions

\* a store at maxSize whose updates have taken memory usage above the bound
C7_Witness ==
    /\ Truthy(cfg.maxSize) /\ Len(cache) = cfg.maxSize
    /\ Truthy(cfg.maxMemoryBytes) /\ currentMemoryUsage > cfg.maxMemoryBytes
    /\ stats.evictions = 0

\* engine value e holds k in neither structure
Gone(e, k) == ~MapHas(e.cache, k) /\ k \notin DOMAIN e.keyOrder.nodeMap

\* C8: once now > expiry holds for a stored entry, get, has, peek and the sweep
\* report its key as absent, and each of get, has, touch, getTTL, delete and the
\* sweep removes it from the entry store and from the recency list.
C8_ExpiredRemoved ==
    \A k \in Keys :
        Expired(k) =>
            /\ get(Eng, k).val = Undef
            /\ ~has(Eng, k).val
            /\ peek(Eng, k).val = Undef
            /\ Gone(get(Eng, k).e, k)
            /\ Gone(has(Eng, k).e, k)
            /\ Gone(getTTL(Eng, k).e, k)
            /\ Gone(delete(Eng, k).e, k)
            /\ Gone(pruneExpired(Eng), k)
            /\ \A t \in TTLArgs : Gone(touch(Eng, k, t).e, k)

\* C9: under sliding TTL with default ttl T and no maxTTL, an entry stored by
\* set and read by get since expires T after its last such access; a get less
\* than T after that access is a hit with the stored value and sets the expiry
\* to now + T.
C9_SlidingKeepsAlive ==
    \A k \in Keys :
        hist.access[k] # Undef =>
            /\ MapHas(cache, k)
            /\ MapGet(cache, k).expiry = hist.access[k] + cfg.ttl
            /\ now - hist.access[k] < cfg.ttl =>
                  LET r == get(Eng, k)
                  IN /\ r.val = MapGet(cache, k).value
                     /\ r.val \in Values
                     /\ MapGet(r.e.cache, k).expiry = now + cfg.ttl

\* an entry older than T, kept alive by a get less than T ago
C9_Witness ==
    \E k \in Keys :
        /\ hist.access[k] # Undef
        /\ now - MapGet(cache, k).createdAt > cfg.ttl
        /\ now - hist.access[k] < cfg.ttl

\* C10 as claimed: under sliding TTL with default ttl T, a get T or more after
\* the last access of the entry returns absent.
C10_Original ==
    \A k \in Keys :
        hist.access[k] # Undef /\ now - hist.access[k] >= cfg.ttl => get(Eng, k).val = Undef

\* C10 amended: a get more than T after the last access returns absent and
\* removes the entry; a get exactly T after it is still a hit.
C10_SlidingExpires ==
    \A k \in Keys :
        hist.access[k] # Undef =>
            /\ now - hist.access[k] > cfg.ttl =>
                  get(Eng, k).val = Undef /\ Gone(get(Eng, k).e, k)
            /\ now - hist.access[k] = cfg.ttl =>
                  get(Eng, k).val = MapGet(cache, k).value

\* one entry last accessed more than T ago, another exactly T ago
C10_Witness ==
    /\ \E k \in Keys : hist.access[k] # Undef /\ now - hist.access[k] > cfg.ttl
    /\ \E k \in Keys : hist.access[k] # Undef /\ now - hist.access[k] = cfg.ttl

\* the entries of every key but k are the same in engine value e as now
OthersKept(e, k) ==
    \A j \in MapKeys(cache) \ {k} : MapHas(e.cache, j) /\ MapGet(e.cache, j) = MapGet(cache, j)

\* 1 when statistics are counted, else 0
Counted == IF cfg.enableStats THEN 1 ELSE 0

\* C11: with maxTTL = M, an entry with now - createdAt > M is absent for get,
\* has and peek, whatever its expiry is after sliding refreshes; a get that hits
\* leaves createdAt as it is, so no pattern of gets moves the cap.
C11_MaxTTLCaps ==
    \A k \in Keys :
        MapHas(cache, k) =>
            LET entry == MapGet(cache, k)
            IN /\ Truthy(cfg.maxTTL) /\ now - entry.createdAt > cfg.maxTTL =>
                     /\ get(Eng, k).val = Undef
                     /\ ~has(Eng, k).val
                     /\ peek(Eng, k).val = Undef
               /\ get(Eng, k).val # Undef =>
                     MapGet(get(Eng, k).e.cache, k).createdAt = entry.createdAt

\* an entry handled by set and get only, past maxTTL, whose expiry the gets
\* have kept ahead of now
C11_Witness ==
    /\ cfg.slidingTTL /\ Truthy(cfg.maxTTL)
    /\ \E k \in Keys :
          /\ hist.access[k] # Undef
          /\ now - MapGet(cache, k).createdAt > cfg.maxTTL
          /\ ~isExpired(MapGet(cache, k))

\* C12: a get on a stored key that satisfies either expiry rule returns absent,
\* removes the entry from both structures, keeps the other entries, counts one
\* expiration and one miss (no eviction, no hit) when statistics are enabled,
\* and emits exactly one event: expire, with the key and the last value stored.
C12_GetExpires ==
    \A k \in Keys :
        Dead(k) =>
            LET r == get(Eng, k)
            IN /\ r.val = Undef
               /\ Gone(r.e, k)
               /\ OthersKept(r.e, k)
               /\ r.e.stats = [stats EXCEPT !.expirations = @ + Counted, !.misses = @ + Counted]
               /\ r.e.events = <<Event("expire", k, hist.written[k], FALSE, "")>>
               /\ hist.written[k] \in Values

\* one expiration and one miss counted, and an entry past its expiry stored
C12_Witness ==
    /\ cfg.enableStats
    /\ stats = [hits |-> 0, misses |-> 1, evictions |-> 0, expirations |-> 1]
    /\ \E k \in Keys : Expired(k) /\ ~pastMaxTTL(MapGet(cache, k))

\* C13: peek(k) leaves the engine as it is (entry store, recency list, every
\* expiry, memory usage, the four counters) and emits nothing, for an absent, a
\* live and an expired k; it returns the value iff k is stored and satisfies
\* neither expiry rule.
C13_PeekReadOnly ==
    \A k \in Keys :
        LET r == peek(Eng, k)
        IN /\ r.e = Eng
           /\ r.e.events = <<>>
           /\ Live(k) => r.val = MapGet(cache, k).value /\ r.val \in Values
           /\ ~Live(k) => r.val = Undef

\* one key past maxTTL with its expiry still ahead, the other live
C13_Witness ==
    /\ MapHas(cache, "a") /\ pastMaxTTL(MapGet(cache, "a")) /\ ~isExpired(MapGet(cache, "a"))
    /\ Live("b")

\* C14: has(k) is true iff k is stored and satisfies neither expiry rule; on a
\* stored key that satisfies one it removes the entry from both structures,
\* counting an expiration and emitting one expire event; otherwise it changes
\* nothing; the other entries and their order in the recency list always stay.
C14_Has ==
    \A k \in Keys :
        LET r == has(Eng, k)
        IN /\ r.val = Live(k)
           /\ OthersKept(r.e, k)
           /\ Dead(k) =>
                 /\ Gone(r.e, k)
                 /\ LKeys(r.e.keyOrder) = Without(LKeys(keyOrder), k)
                 /\ r.e.stats = [stats EXCEPT !.expirations = @ + Counted]
                 /\ r.e.events = <<Event("expire", k, MapGet(cache, k).value, FALSE, "")>>
           /\ ~Dead(k) => r.e = Eng

\* two expirations counted without a miss: has removed two expired entries
C14_Witness ==
    /\ cfg.enableStats
    /\ stats = [hits |-> 0, misses |-> 0, evictions |-> 0, expirations |-> 2]
    /\ cache = <<>>

C16_Delete ==
    \A k \in Keys :
        LET r == delete(Eng, k)
        IN IF MapHas(cache, k)
           THEN LET entry == MapGet(cache, k)
                IN /\ r.val = TRUE
                   /\ Gone(r.e, k)
                   /\ OthersKept(r.e, k)
                   /\ MapKeys(r.e.cache) = MapKeys(cache) \ {k}
                   /\ LKeys(r.e.keyOrder) = Without(LKeys(keyOrder), k)
                   /\ r.e.mem = currentMemoryUsage - (IF Truthy(entry.size) THEN entry.size ELSE 0)
                   /\ r.e.events = <<Event("delete", k, entry.value, FALSE, "")>>
                   /\ r.e.stats = stats
           ELSE r.val = FALSE /\ r.e = Eng

\* a memory-bounded store with an entry of 4 bytes and one of 2, and counters
\* that are not zero
C16_Witness ==
    /\ Truthy(cfg.maxMemoryBytes)
    /\ Len(cache) = 2 /\ currentMemoryUsage = 6
    /\ stats.hits = 1 /\ stats.misses = 1

\* C17: clear() leaves the entry store and the recency list empty and memory
\* usage 0, emits exactly one event, clear, and leaves the four counters.
C17_Clear ==
    LET e == clear(Eng)
    IN /\ e.cache = <<>>
       /\ e.keyOrder = EmptyList
       /\ LKeys(e.keyOrder) = <<>>
       /\ e.mem = 0
       /\ e.events = <<Event("clear", NullKey, Undef, FALSE, "")>>
       /\ e.stats = stats

\* an empty store whose counters show a hit and an eviction from before
C17_Witness ==
    /\ cache = <<>> /\ keyOrder = EmptyList /\ currentMemoryUsage = 0
    /\ stats.hits = 1 /\ stats.evictions = 1
    /\ Truthy(cfg.maxMemoryBytes)

\* C18: setWithTTL(k, v, ttl) stores expiry = now + ttl for every given ttl, 0
\* included, and +infinity only when no ttl is given; set(k, v) is
\* setWithTTL(k, v, default ttl).
C18_ExpiryFromTTL ==
    \A k \in Keys, v \in Values :
        /\ \A t \in TTLArgs :
              MapGet(setWithTTL(Eng, k, v, t).cache, k).expiry =
                  (IF t # Undef THEN now + t ELSE Infinity)
        /\ set(Eng, k, v) = setWithTTL(Eng, k, v, cfg.ttl)

\* the set events among the events of engine value e
Sets(e) == SelectSeq(e.events, LAMBDA x : x.type = "set")

\* C19: on a stored key that satisfies neither expiry rule getOrCompute returns
\* the stored value, does not invoke the supplier and sets nothing; otherwise
\* it invokes the supplier once and the result is stored under the key by
\* exactly one set: at once for a synchronous supplier, and for an asynchronous
\* one by the callback of its promise, once per pending promise.
C19_GetOrCompute ==
    \A k \in Keys, v \in Values :
        LET r == getOrCompute(Eng, k, v)
            p == getOrComputeAsync(Eng, k)
        IN /\ Live(k) =>
                 /\ r.val = MapGet(cache, k).value /\ r.calls = 0 /\ Sets(r.e) = <<>>
                 /\ p.val = MapGet(cache, k).value /\ p.calls = 0 /\ Sets(p.e) = <<>>
                 /\ r.e = get(Eng, k).e /\ p.e = r.e
           /\ ~Live(k) =>
                 /\ r.val = v /\ r.calls = 1
                 /\ Sets(r.e) = <<Event("set", k, v, FALSE, "")>>
                 /\ MapGet(r.e.cache, k).value = v
                 /\ p.val = Undef /\ p.calls = 1 /\ Sets(p.e) = <<>>
                 /\ ~MapHas(p.e.cache, k)
           /\ pending[k] > 0 =>
                 LET e == thenCallback(Eng, k, v)
                 IN /\ Len(Sets(e)) = 1
                    /\ Sets(e)[1].key = k /\ Sets(e)[1].value = v
                    /\ MapGet(e.cache, k).value = v

\* a promise for "a" is pending while "b" is live and "c" is expired
C19_Witness ==
    /\ pending["a"] = 1 /\ ~MapHas(cache, "a")
    /\ Live("b")
    /\ Dead("c")

\* C20: while a promise for k is pending, a further getOrCompute that misses k
\* invokes its supplier too; every callback writes its value, so the store
\* holds the value written last, and a callback that finds k stored reports an
\* update; the recency list matches the entry store and the count bound holds
\* in every state and after every callback.
C20_ConcurrentMisses ==
    /\ InSync(Eng)
    /\ Len(cache) <= cfg.maxSize
    /\ \A k \in Keys :
        /\ MapHas(cache, k) => MapGet(cache, k).value = hist.written[k]
        /\ pending[k] > 0 =>
              /\ ~Live(k) => getOrComputeAsync(Eng, k).calls = 1
              /\ \A v \in Values :
                    LET e == thenCallback(Eng, k, v)
                    IN /\ MapGet(e.cache, k).value = v
                       /\ Sets(e) = <<Event("set", k, v, MapHas(cache, k), "")>>
                       /\ InSync(e)
                       /\ Len(e.cache) <= cfg.maxSize

\* "a" is stored by the callback of one promise while a second promise, started
\* before that callback ran, is pending; the store is full
C20_Witness ==
    /\ pending["a"] = 1 /\ MapHas(cache, "a")
    /\ Len(cache) = cfg.maxSize

\* the stored keys that satisfy an expiry rule
DeadKeys == {k \in MapKeys(cache) : Dead(k)}

\* C21: pruneExpired removes exactly the stored entries that satisfy one of the
\* two expiry rules; for each it counts one expiration and emits one expire
\* event with the key and the value, and nothing else; the other entries, their
\* expiry and their order in the recency list stay.
C21_Prune ==
    LET e == pruneExpired(Eng)
    IN /\ MapKeys(e.cache) = MapKeys(cache) \ DeadKeys
       /\ \A k \in MapKeys(e.cache) : MapGet(e.cache, k) = MapGet(cache, k)
       /\ DOMAIN e.keyOrder.nodeMap = MapKeys(e.cache)
       /\ LKeys(e.keyOrder) = SelectSeq(LKeys(keyOrder), LAMBDA k : ~Dead(k))
       /\ e.stats = [stats EXCEPT !.expirations = @ + Counted * Cardinality(DeadKeys)]
       /\ Len(e.events) = Cardinality(DeadKeys)
       /\ \A k \in DeadKeys :
             \E i \in 1..Len(e.events) :
                 e.events[i] = Event("expire", k, MapGet(cache, k).value, FALSE, "")

\* both entries satisfy a rule, "a" the maxTTL rule only, after one expiration
\* was counted
C21_Witness ==
    /\ cfg.enableStats /\ stats.expirations = 1
    /\ MapHas(cache, "a") /\ pastMaxTTL(MapGet(cache, "a")) /\ ~isExpired(MapGet(cache, "a"))
    /\ Expired("b")

\* C22: with autoCleanup enabled, in an engine that is never disposed, every
\* stored entry that satisfies an expiry rule is eventually removed (or
\* replaced), the periodic sweep being the only thing that has to happen.
C22_SweepRemoves == \A k \in Keys : (cfg.autoCleanup /\ Dead(k)) ~> ~Dead(k)

\* C23: dispose leaves the entry store and the recency list empty, memory usage
\* 0 and the interval cleared; the timer callback runs only while the interval
\* is set, and no operation sets it again.
C23_Dispose ==
    /\ [](LET d == dispose(Eng, timer)
          IN /\ d.e.cache = <<>> /\ d.e.keyOrder = EmptyList /\ d.e.mem = 0
             /\ d.timer = FALSE)
    /\ [](~timer => ~ENABLED TimerSweep)
    /\ [][~timer => ~timer']_vars

\* a disposed engine in use again: an expired entry that no sweep will remove
C23_Witness ==
    /\ cfg.autoCleanup /\ cfg.ttl # Undef /\ ~timer
    /\ \E k \in Keys : Dead(k)

\* the counters at zero
ZeroStats == [hits |-> 0, misses |-> 0, evictions |-> 0, expirations |-> 0]

\* a step lowers a counter only by zeroing all four and leaving the entries,
\* the recency list and memory usage
C24_Step ==
    (\E c \in DOMAIN stats : stats'[c] < stats[c]) =>
        /\ stats' = ZeroStats
        /\ UNCHANGED <<cache, keyOrder, currentMemoryUsage>>

\* C24: no operation but resetStats lowers hits, misses, evictions or
\* expirations; clear and dispose leave them; resetStats zeroes the four and
\* changes nothing else.
C24_Monotonic ==
    /\ [](/\ resetStats(Eng) = [Eng EXCEPT !.stats = ZeroStats]
          /\ clear(Eng).stats = stats
          /\ dispose(Eng, timer).e.stats = stats)
    /\ [][C24_Step]_vars

\* counters kept by a dispose: the store is empty, the timer is off
C24_Witness ==
    /\ cache = <<>> /\ ~timer
    /\ stats.hits = 1 /\ stats.expirations = 1

\* a step makes an absent key present only by writing it
C27_Step ==
    \A k \in Keys :
        ~MapHas(cache, k) /\ MapHas(cache', k) => hist'.written[k] # Undef

\* C27: get, peek, has, touch, getTTL, delete, pruneExpired and clear never make
\* an absent key present (they add no key at all); a key becomes present only
\* in a step that writes it; after a deletion, an expiration or an eviction the
\* key is absent from both structures.
C27_Absent ==
    /\ [](\A k \in Keys :
            /\ MapKeys(get(Eng, k).e.cache) \subseteq MapKeys(cache)
            /\ MapKeys(peek(Eng, k).e.cache) \subseteq MapKeys(cache)
            /\ MapKeys(has(Eng, k).e.cache) \subseteq MapKeys(cache)
            /\ MapKeys(getTTL(Eng, k).e.cache) \subseteq MapKeys(cache)
            /\ MapKeys(delete(Eng, k).e.cache) \subseteq MapKeys(cache)
            /\ \A t \in TTLArgs : MapKeys(touch(Eng, k, t).e.cache) \subseteq MapKeys(cache)
            /\ Gone(delete(Eng, k).e, k)
            /\ Dead(k) => Gone(get(Eng, k).e, k) /\ Gone(has(Eng, k).e, k)
                          /\ Gone(pruneExpired(Eng), k)
            /\ \A v \in Values, t \in TTLArgs :
                  LET e == setWithTTL(Eng, k, v, t)
                  IN \A i \in 1..Len(Evicts(e)) :
                        Evicts(e)[i].key # k => Gone(e, Evicts(e)[i].key))
    /\ [](MapKeys(pruneExpired(Eng).cache) \subseteq MapKeys(cache)
          /\ MapKeys(clear(Eng).cache) = {})
    /\ [][C27_Step]_vars

\* "a" is absent after an eviction and an expiration were counted, the store
\* being full
C27_Witness ==
    /\ stats.evictions = 1 /\ stats.expirations = 1
    /\ ~MapHas(cache, "a") /\ Len(cache) = 2

\* the engine with the same entries and enableStats off
Quiet == [Eng EXCEPT !.enableStats = FALSE, !.stats = ZeroStats]

\* engine values e and q differ in the counters at most, and those of q are zero
Same(e, q) ==
    /\ e.cache = q.cache /\ e.keyOrder = q.keyOrder /\ e.mem = q.mem
    /\ e.events = q.events
    /\ q.stats = ZeroStats

\* the same result, and engines that are the Same
SameResult(r, rq) == r.val = rq.val /\ Same(r.e, rq.e)

NoEviction(e, k) ==
    /\ MapKeys(cache) \ {k} \subseteq MapKeys(e.cache)
    /\ DOMAIN keyOrder.nodeMap \ {k} \subseteq DOMAIN e.keyOrder.nodeMap
    /\ Evicts(e) = <<>>
    /\ e.stats.evictions = stats.evictions

\* C25: get (hit, miss, expired), peek, has and touch remove no key other than
\* the one asked for, emit no evict event and leave the evictions counter,
\* however full the store is.
C25_ReadsNeverEvict ==
    \A k \in Keys :
        /\ NoEviction(get(Eng, k).e, k)
        /\ NoEviction(peek(Eng, k).e, k)
        /\ NoEviction(has(Eng, k).e, k)
        /\ \A t \in TTLArgs : NoEviction(touch(Eng, k, t).e, k)

\* a store at maxSize after an eviction, holding an expired and a live entry
C25_Witness ==
    /\ Len(cache) = cfg.maxSize /\ stats.evictions = 1
    /\ \E k \in MapKeys(cache) : Dead(k)
    /\ \E k \in MapKeys(cache) : ~Dead(k)
    /\ \E k \in Keys : ~MapHas(cache, k)

\* a step to other options leaves a new engine: nothing stored, memory usage
\* 0, the counters at zero
C26_Step ==
    cfg' # cfg =>
        /\ cache' = <<>> /\ keyOrder' = EmptyList
        /\ currentMemoryUsage' = 0 /\ stats' = ZeroStats

C29_RoundTrip ==
    LET r == fromJSON(toJSON(Eng))
    IN (\A k \in MapKeys(cache) : ~Dead(k) /\ MapGet(cache, k).expiry > now) =>
          /\ MapKeys(r.cache) = MapKeys(cache)
          /\ \A k \in MapKeys(cache) : MapGet(r.cache, k) = MapGet(cache, k)
          /\ LKeys(r.keyOrder) = LKeys(keyOrder)
          /\ r.mem = currentMemoryUsage

\* C30: getStats returns the counters, the size and the memory usage of the
\* engine as it is right after the call, its expirations being the engine's
\* expirations counter; hitRate is hits / (hits + misses), or 0 without accesses.
C30_Snapshot ==
    LET r == getStats(Eng)
    IN /\ r.val.size = Len(r.e.cache)
       /\ r.val.memoryUsage = (IF Truthy(cfg.maxMemoryBytes) THEN r.e.mem ELSE Undef)
       /\ \A k \in MapKeys(r.e.cache) : ~(isExpired(MapGet(r.e.cache, k)) \/ pastMaxTTL(MapGet(r.e.cache, k)))
       /\ r.val.hits = r.e.stats.hits /\ r.val.misses = r.e.stats.misses
       /\ r.val.evictions = r.e.stats.evictions
       /\ r.val.expirations = r.e.stats.expirations
       /\ IF stats.hits + stats.misses = 0
          THEN r.val.hitRate.num = 0
          ELSE r.val.hitRate = [num |-> stats.hits, den |-> stats.hits + stats.misses]

RECURSIVE SumSizes(_)
\* the sum of the sizes recorded in the entries of store c
SumSizes(c) ==
    IF c = <<>> THEN 0
    ELSE (IF Truthy(Head(c).size) THEN Head(c).size ELSE 0) + SumSizes(Tail(c))

\* the entries of the state that engine value e no longer holds, but for k
Removed(e, k) == SelectSeq(cache, LAMBDA x : x.key # k /\ ~MapHas(e.cache, x.key))

\* C31: currentMemoryUsage is the sum of the sizes recorded in the stored
\* entries and is never negative; an update changes it by newSize - oldSize, an
\* insertion adds the new size and subtracts the sizes of the evicted entries,
\* an expiration and a deletion subtract the removed entry's size, clear sets 0.
C31_MemoryExact ==
    /\ currentMemoryUsage = SumSizes(cache)
    /\ currentMemoryUsage >= 0
    /\ clear(Eng).mem = 0
    /\ pruneExpired(Eng).mem = SumSizes(pruneExpired(Eng).cache)
    /\ fromJSON(toJSON(Eng)).mem = SumSizes(fromJSON(toJSON(Eng)).cache)
    /\ \A k \in Keys :
        /\ MapHas(cache, k) =>
              /\ delete(Eng, k).e.mem = currentMemoryUsage - MapGet(cache, k).size
              /\ get(Eng, k).e.mem = currentMemoryUsage - (IF Dead(k) THEN MapGet(cache, k).size ELSE 0)
        /\ \A v \in Values, t \in TTLArgs :
              LET e == setWithTTL(Eng, k, v, t)
              IN /\ e.mem = SumSizes(e.cache)
                 /\ e.mem >= 0
                 /\ e.mem = currentMemoryUsage + estimateSize(v)
                            - (IF MapHas(cache, k) THEN MapGet(cache, k).size ELSE 0)
                            - SumSizes(Removed(e, k))

\* the bound is used up by two entries of different sizes, one of them expired
C31_Witness ==
    /\ currentMemoryUsage = cfg.maxMemoryBytes /\ Len(cache) = 2
    /\ \E k \in Keys : Dead(k)
    /\ \E k \in Keys : Live(k)

\* list l is a doubly-linked chain over its indexed keys: keys() holds each
\* indexed key once, its length is size, head has no prev, tail has no next,
\* and next and prev are mutual
WellFormed(l) ==
    /\ Len(LKeys(l)) = l.size
    /\ Range(LKeys(l)) = DOMAIN l.nodeMap
    /\ Cardinality(DOMAIN l.nodeMap) = l.size
    /\ (l.head = NullKey) = (l.size = 0)
    /\ (l.tail = NullKey) = (l.size = 0)
    /\ l.size > 0 =>
          /\ l.head \in DOMAIN l.nodeMap /\ l.tail \in DOMAIN l.nodeMap
          /\ l.nodeMap[l.head].prev = NullKey
          /\ l.nodeMap[l.tail].next = NullKey
          /\ Last(LKeys(l)) = l.tail
    /\ \A k \in DOMAIN l.nodeMap :
          LET n == l.nodeMap[k]
          IN /\ n.next # NullKey => n.next \in DOMAIN l.nodeMap /\ l.nodeMap[n.next].prev = k
             /\ n.prev # NullKey => n.prev \in DOMAIN l.nodeMap /\ l.nodeMap[n.prev].next = k
             /\ n.next = NullKey => k = l.tail
             /\ n.prev = NullKey => k = l.head

\* C32: the recency list is a well-formed chain in every reachable state, and
\* stays one under each of its operations; push of an absent key appends it,
\* push of a present key is moveToEnd; moveToEnd puts the key last and keeps the
\* order of the others (nothing changes for an absent key); shift takes the head,
\* or signals empty and changes nothing; remove takes the key out, keeps the
\* order of the others and changes nothing for an absent key.
C32_RecencyList ==
    LET l == keyOrder
        s == shift(l)
    IN /\ WellFormed(l)
       /\ l.size = Len(cache)
       /\ WellFormed(s.list)
       /\ IF LKeys(l) = <<>>
          THEN s.key = NullKey /\ s.list = l
          ELSE s.key = Head(LKeys(l)) /\ LKeys(s.list) = Tail(LKeys(l))
       /\ \A k \in Keys :
            /\ WellFormed(push(l, k)) /\ WellFormed(moveToEnd(l, k)) /\ WellFormed(remove(l, k))
            /\ IF LHas(l, k)
               THEN /\ LKeys(moveToEnd(l, k)) = Append(Without(LKeys(l), k), k)
                    /\ LKeys(push(l, k)) = Append(Without(LKeys(l), k), k)
                    /\ push(l, k).size = l.size
                    /\ LKeys(remove(l, k)) = Without(LKeys(l), k)
                    /\ ~LHas(remove(l, k), k)
               ELSE /\ moveToEnd(l, k) = l
                    /\ remove(l, k) = l
                    /\ LKeys(push(l, k)) = Append(LKeys(l), k)
                    /\ push(l, k).size = l.size + 1

\* three keys, the one inserted last in the middle
C32_Witness ==
    /\ keyOrder.size = 3
    /\ cache[3].key = LKeys(keyOrder)[2]
    /\ cache[1].key = keyOrder.tail

\* C33: for two distinct prefixes p and q of the same parent: a get through q
\* never returns what a set through p has just stored (it returns what it
\* returned before, or nothing); a clear through p removes the entry a set
\* through p has just stored and leaves the entry a set through q has just
\* stored, and every entry whose key does not begin with "p:", as it is.
C33_NamespaceIsolation ==
    \A p \in NsPrefixes : \A q \in NsPrefixes \ {p} :
      \A k \in NsKeys, j \in NsKeys, v \in Values :
        /\ nsGet(nsSet(Eng, p, k, v), q, j).val \in {Undef, nsGet(Eng, q, j).val}
        /\ ~MapHas(nsClear(nsSet(Eng, p, k, v), p).cache, prefixKey(p, k))
        /\ LET e1 == nsSet(Eng, q, k, v)
               e2 == nsClear(e1, p)
           IN /\ MapHas(e2.cache, prefixKey(q, k))
              /\ MapGet(e2.cache, prefixKey(q, k)) = MapGet(e1.cache, prefixKey(q, k))
        /\ \A i \in 1..Len(cache) :
              ~patternTest(p, cache[i].key) =>
                  /\ MapHas(nsClear(Eng, p).cache, cache[i].key)
                  /\ MapGet(nsClear(Eng, p).cache, cache[i].key) = cache[i]

\* C34: touch(k) returns true exactly when has(k) would, and getTTL(k) returns
\* a number only when get(k) would hit; for a stored entry with
\* now - createdAt > maxTTL touch returns false and leaves the entry, and
\* getTTL returns null.
C34_ExpiryAgreement ==
    \A k \in Keys :
        /\ \A t \in TTLArgs : touch(Eng, k, t).val = has(Eng, k).val
        /\ getTTL(Eng, k).val # Undef => get(Eng, k).val # Undef
        /\ (MapHas(cache, k) /\ pastMaxTTL(MapGet(cache, k))) =>
              /\ getTTL(Eng, k).val = Undef
              /\ \A t \in TTLArgs :
                    /\ ~touch(Eng, k, t).val
                    /\ MapHas(touch(Eng, k, t).e.cache, k) =>
                          MapGet(touch(Eng, k, t).e.cache, k) = MapGet(cache, k)

\* C35: the insertion of a new key under a memory bound leaves usage within
\* the bound or the new entry alone; the loop evicts from the head of the
\* recency list, in order, with one evict event of reason "memory" each, not
\* more entries than are stored (it terminates), and none once the new entry
\* fits: before its last eviction the entry did not fit.
C35_MemoryEviction ==
    \A k \in Keys \ MapKeys(cache), v \in Values, t \in TTLArgs :
        LET e == setWithTTL(Eng, k, v, t)
            n == Len(Evicts(e))
            old == LKeys(keyOrder)
            evicted == [i \in 1..n |-> MapGet(cache, old[i])]
        IN /\ e.mem <= cfg.maxMemoryBytes \/ MapKeys(e.cache) = {k}
           /\ n <= Len(cache)
           /\ \A i \in 1..n :
                 /\ Evicts(e)[i].key = old[i]
                 /\ Evicts(e)[i].value = MapGet(cache, old[i]).value
                 /\ Evicts(e)[i].reason = "memory"
           /\ LKeys(e.keyOrder) = Append(SubSeq(old, n + 1, Len(old)), k)
           /\ MapKeys(e.cache) = Range(LKeys(e.keyOrder))
           /\ n > 0 =>
                 currentMemoryUsage - SumSizes(SubSeq(evicted, 1, n - 1)) + estimateSize(v)
                     > cfg.maxMemoryBytes
           /\ n < Len(cache) => e.mem <= cfg.maxMemoryBytes

\* an entry above the bound is stored alone, after time has passed
C35_Witness ==
    /\ Len(cache) = 1 /\ cache[1].size > cfg.maxMemoryBytes
    /\ now > cache[1].createdAt

\* the expire events among the events of engine value e
Expires(e) == SelectSeq(e.events, LAMBDA x : x.type = "expire")

\* C36 as claimed: a new key set on a store at maxSize that holds an expired
\* entry removes an expired entry, reported as an expiration and not as an
\* eviction, and every live entry stays.
C36_Original ==
    \A k \in Keys \ MapKeys(cache), v \in Values, t \in TTLArgs :
        (sizeEvictionDue(Eng) /\ DeadKeys # {}) =>
            LET e == setWithTTL(Eng, k, v, t)
            IN /\ Evicts(e) = <<>>
               /\ Len(Expires(e)) = 1 /\ Expires(e)[1].key \in DeadKeys
               /\ \A j \in MapKeys(cache) \ DeadKeys : MapHas(e.cache, j)
               /\ e.stats = [stats EXCEPT !.expirations = @ + Counted]

\* C36: a new key set on a store at maxSize removes the key at the head of the
\* recency list, whether that entry or another one has expired, and reports it
\* as an eviction: one evict event with reason "size", the evictions counter,
\* no expire event; every other entry, expired or not, stays as it is.
C36_EvictsOldest ==
    \A k \in Keys \ MapKeys(cache), v \in Values, t \in TTLArgs :
        (sizeEvictionDue(Eng) /\ DeadKeys # {}) =>
            LET e == setWithTTL(Eng, k, v, t)
                oldest == keyOrder.head
            IN /\ Evicts(e) = <<Event("evict", oldest, MapGet(cache, oldest).value, FALSE, "size")>>
               /\ Expires(e) = <<>>
               /\ Gone(e, oldest)
               /\ OthersKept(e, oldest)
               /\ e.stats = [stats EXCEPT !.evictions = @ + Counted]

\* a store at maxSize whose head is live and whose tail is past maxTTL with its
\* expiry still ahead
C36_Witness ==
    /\ sizeEvictionDue(Eng) /\ cfg.enableStats
    /\ Live(keyOrder.head)
    /\ pastMaxTTL(MapGet(cache, keyOrder.tail)) /\ ~isExpired(MapGet(cache, keyOrder.tail))
    /\ \E k \in Keys : ~MapHas(cache, k)

\* C37 as claimed: the set event's update flag is true exactly when the key held
\* an entry that satisfies neither expiry rule; on an expired entry that is
\* still stored the set is reported as an insertion.
C37_Original ==
    \A k \in Keys, v \in Values, t \in TTLArgs :
        Sets(setWithTTL(Eng, k, v, t)) = <<Event("set", k, v, Live(k), "")>>

\* C37: setWithTTL emits exactly one set event, whose update flag is true
\* exactly when the key was in the entry store before the call; a set on an
\* expired entry that is still stored is an update: flag true, no expire and no
\* evict event, the counters unchanged, the entry replaced.
C37_UpdateFlag ==
    \A k \in Keys, v \in Values, t \in TTLArgs :
        LET e == setWithTTL(Eng, k, v, t)
        IN /\ Sets(e) = <<Event("set", k, v, MapHas(cache, k), "")>>
           /\ Dead(k) =>
                 /\ e.events = <<Event("set", k, v, TRUE, "")>>
                 /\ e.stats = stats
                 /\ MapKeys(e.cache) = MapKeys(cache)
                 /\ MapGet(e.cache, k).value = v /\ MapGet(e.cache, k).createdAt = now

\* "a" is expired and stored at the head of the list, "b" is live
C37_Witness ==
    /\ Dead("a") /\ Live("b")
    /\ keyOrder.head = "a"
    /\ now > MapGet(cache, "b").createdAt

\* the delete, evict and expire events among the events of engine value e
Removals(e) == SelectSeq(e.events, LAMBDA x : x.type \in {"delete", "evict", "expire"})

\* engine value e, reached from store pre by one operation: every key of pre
\* that e no longer holds has exactly one removal event, of the given type and
\* with the value it held, and there is no other removal event and no clear
Notified(pre, e, type) ==
    LET gone == MapKeys(pre) \ MapKeys(e.cache)
        evs == Removals(e)
    IN /\ Len(evs) = Cardinality(gone)
       /\ \A i \in 1..Len(evs) :
             /\ evs[i].type = type
             /\ evs[i].key \in gone
             /\ evs[i].value = MapGet(pre, evs[i].key).value
             /\ \A j \in 1..Len(evs) : evs[j].key = evs[i].key => j = i
       /\ \A i \in 1..Len(e.events) : e.events[i].type # "clear"

\* C38: every operation emits, for each key it removes, exactly one event of
\* the kind of the removal with the value the key held (delete for delete,
\* evict for the evictions of an insertion, expire for the removals of get,
\* has, getTTL and the sweep), and no such event for a key it keeps; peek,
\* touch and an update remove and report nothing; clear emits the one clear
\* event and nothing else, whatever it removes.
C38_Notifications ==
    /\ Notified(cache, pruneExpired(Eng), "expire")
    /\ clear(Eng).events = <<Event("clear", NullKey, Undef, FALSE, "")>>
    /\ clear(Eng).cache = <<>>
    /\ \A k \in Keys :
        /\ Notified(cache, delete(Eng, k).e, "delete")
        /\ Notified(cache, get(Eng, k).e, "expire")
        /\ Notified(cache, has(Eng, k).e, "expire")
        /\ Notified(cache, getTTL(Eng, k).e, "expire")
        /\ Removals(peek(Eng, k).e) = <<>> /\ peek(Eng, k).e.cache = cache
        /\ \A t \in TTLArgs :
              /\ Removals(touch(Eng, k, t).e) = <<>>
              /\ MapKeys(touch(Eng, k, t).e.cache) = MapKeys(cache)
        /\ \A v \in Values, t \in TTLArgs :
              /\ Notified(cache, setWithTTL(Eng, k, v, t), "evict")
              /\ LET r == get(Eng, k)
                     e == setWithTTL([r.e EXCEPT !.events = <<>>], k, v, t)
                 IN r.val = Undef => Notified(r.e.cache, e, "evict")

\* two entries fill the memory bound, the older one expired and first in line
\* for eviction
C38_Witness ==
    /\ Len(cache) = 2 /\ currentMemoryUsage = cfg.maxMemoryBytes
    /\ Dead(keyOrder.head) /\ Live(keyOrder.tail)
    /\ cache[1].key = keyOrder.tail

\* hits + misses of a statistics block
Lookups(st) == st.hits + st.misses

\* hits and misses are those of the state
SameLookups(e) == e.stats.hits = stats.hits /\ e.stats.misses = stats.misses

\* the sequences of at most two keys
KeyLists == {<<>>} \cup {<<k>> : k \in Keys} \cup {<<k, j>> : k \in Keys, j \in Keys}

\* a step changes hits + misses only as a get or a getOrCompute call, by one,
\* or as resetStats
C39_Step ==
    Lookups(stats') # Lookups(stats) =>
        \/ stats' = ZeroStats /\ UNCHANGED <<cache, keyOrder, currentMemoryUsage>>
        \/ /\ Lookups(stats') = Lookups(stats) + 1
           /\ \E k \in Keys : Get(k) \/ GetOrCompute(k, 1)

\* C39: with enableStats on, get adds one to hits when it returns a value and
\* one to misses when it does not, and nothing to the other; getOrCompute and
\* getMany count through the gets they make, one per key asked; peek, has,
\* touch, getTTL, delete, set, setWithTTL, clear and the sweep leave hits and
\* misses; so hits + misses counts the get calls since the last resetStats.
C39_HitsAndMisses ==
    /\ [](cfg.enableStats =>
           /\ SameLookups(pruneExpired(Eng)) /\ SameLookups(clear(Eng))
           /\ \A ks \in KeyLists :
                 LET r == getMany(Eng, ks)
                 IN /\ Lookups(r.e.stats) = Lookups(stats) + Len(ks)
                    /\ r.e.stats.hits >= stats.hits + Len(r.val)
                    /\ (Len(ks) < 2 \/ ks[1] # ks[2]) => r.e.stats.hits = stats.hits + Len(r.val)
           /\ \A k \in Keys :
                 /\ LET r == get(Eng, k)
                    IN /\ r.e.stats.hits = stats.hits + (IF r.val # Undef THEN 1 ELSE 0)
                       /\ r.e.stats.misses = stats.misses + (IF r.val = Undef THEN 1 ELSE 0)
                       /\ (r.val # Undef) = Live(k)
                 /\ SameLookups(peek(Eng, k).e) /\ SameLookups(has(Eng, k).e)
                 /\ SameLookups(getTTL(Eng, k).e) /\ SameLookups(delete(Eng, k).e)
                 /\ \A t \in TTLArgs : SameLookups(touch(Eng, k, t).e)
                 /\ \A v \in Values :
                       /\ getOrCompute(Eng, k, v).e.stats.hits = get(Eng, k).e.stats.hits
                       /\ getOrCompute(Eng, k, v).e.stats.misses = get(Eng, k).e.stats.misses
                       /\ getOrComputeAsync(Eng, k).e.stats = get(Eng, k).e.stats
                       /\ SameLookups(set(Eng, k, v))
                       /\ \A t \in TTLArgs : SameLookups(setWithTTL(Eng, k, v, t)))
    /\ [][C39_Step]_vars

\* a hit and a miss are counted and an expired entry is stored
C39_Witness ==
    /\ cfg.enableStats /\ stats.hits = 1 /\ stats.misses = 1
    /\ \E k \in Keys : Dead(k)
    /\ Len(cache) = 1

C40_Step ==
    pending'["a"] < pending["a"] =>
        /\ MapHas(cache', "a")
        /\ MapGet(cache', "a").value = hist'.written["a"]
        /\ keyOrder'.tail = "a"

====
